---- MODULE Spec2Model ----
(***************************************************************************)
(* gapc CYK traversal generator (src/cyk.cc).                              *)
(*                                                                         *)
(* Part 1 translates the generator: the operators below build the          *)
(* statement tree that print_CYK returns, node by node as the C++ code     *)
(* does.  Part 2 gives the emitted statements their C++/OpenMP meaning as  *)
(* a state machine (a team of threads walking the tree), so that claims    *)
(* about the generated program are checked on the tree the generator       *)
(* really builds.                                                          *)
(***************************************************************************)
EXTENDS Integers, Sequences, FiniteSets, TLC

(***************************************************************************)
(* Bounds of the model.                                                    *)
(***************************************************************************)
MaxN == 5
MaxTile == 2
MaxThreads == 2
MaxRestarts == 1
MaxTracks == 2
MaxTrackN == 2
MaxFlagN == 2
FlagBits == 2

(***************************************************************************)
(* Program constants.                                                      *)
(***************************************************************************)
DefaultTileSize == 32
\* the largest value of the type int of the loaded flags
INT_MAX == 2147483647

MUTEX == "mutex"
VARNAME_OuterLoop1 == "outer_loop_1_idx"
VARNAME_OuterLoop2 == "outer_loop_2_idx"
VARNAME_InnerLoop2 == "inner_loop_2_idx"

\* the persisted progress counters of the tiled schedule
Counters == {VARNAME_OuterLoop1, VARNAME_OuterLoop2, VARNAME_InnerLoop2}

(***************************************************************************)
(* Names.  The generator concatenates strings; the model tabulates the     *)
(* concatenations it needs.                                                *)
(***************************************************************************)
LeftName(track) == CASE track = 0 -> "t_0_i" [] track = 1 -> "t_1_i" [] OTHER -> "t_2_i"
RightName(track) == CASE track = 0 -> "t_0_j" [] track = 1 -> "t_1_j" [] OTHER -> "t_2_j"
SeqName(track) == CASE track = 0 -> "t_0_seq" [] track = 1 -> "t_1_seq" [] OTHER -> "t_2_seq"

IndexNames == {"t_0_i", "t_0_j", "t_1_i", "t_1_j", "t_2_i", "t_2_j"}

\* name + "_loaded"
LoadedName(name) ==
  CASE name = "t_0_i" -> "t_0_i_loaded" [] name = "t_0_j" -> "t_0_j_loaded"
    [] name = "t_1_i" -> "t_1_i_loaded" [] name = "t_1_j" -> "t_1_j_loaded"
    [] name = "t_2_i" -> "t_2_i_loaded" [] name = "t_2_j" -> "t_2_j_loaded"
    [] name = "outer_loop_1_idx" -> "outer_loop_1_idx_loaded"
    [] name = "outer_loop_2_idx" -> "outer_loop_2_idx_loaded"
    [] name = "inner_loop_2_idx" -> "inner_loop_2_idx_loaded"

\* name + "_start"
StartName(name) ==
  CASE name = "outer_loop_1_idx" -> "outer_loop_1_idx_start"
    [] name = "outer_loop_2_idx" -> "outer_loop_2_idx_start"
    [] name = "inner_loop_2_idx" -> "inner_loop_2_idx_start"

\* name.find("t_", 0) == 0
StartsWithT(name) == name \in IndexNames \cup {"t_0_seq", "t_1_seq", "t_2_seq"}

\* name.find("nt_tabulate_", 0) == 0
IsNtCallName(name) ==
  name \in {"nt_tabulate_A", "nt_tabulate_B", "nt_tabulate_C", "nt_tabulate_D"}

(***************************************************************************)
(* Expr:: nodes.                                                           *)
(***************************************************************************)
Const(v) == [e |-> "const", v |-> v]
Vacc(name) == [e |-> "vacc", name |-> name]
\* Expr::Vacc(name + "++"): the text of a post-increment
VaccPostInc(name) == [e |-> "postinc", name |-> name]
Plus(l, r) == [e |-> "plus", l |-> l, r |-> r]
Minus(l, r) == [e |-> "minus", l |-> l, r |-> r]
Times(l, r) == [e |-> "times", l |-> l, r |-> r]
Div(l, r) == [e |-> "div", l |-> l, r |-> r]
Less(l, r) == [e |-> "less", l |-> l, r |-> r]
Greater(l, r) == [e |-> "greater", l |-> l, r |-> r]
Or(l, r) == [e |-> "or", l |-> l, r |-> r]
Not(l) == [e |-> "not", l |-> l]
Cond(c, t, f) == [e |-> "cond", c |-> c, t |-> t, f |-> f]
\* Expr::Fn_Call("size") on the object seq
SizeCall(seq) == [e |-> "size", name |-> seq]

(***************************************************************************)
(* Statement:: nodes.  typ "" is Type::External(""): the declaration       *)
(* prints as a plain assignment to an already declared variable.           *)
(***************************************************************************)
Var_Decl(typ, var, rhs) == [k |-> "decl", typ |-> typ, var |-> var, rhs |-> rhs]
Var_Assign(var, rhs) == [k |-> "assign", var |-> var, rhs |-> rhs]
Fn_Call(name, args) == [k |-> "call", name |-> name, args |-> args]
Fn_Assert(var) == [k |-> "assert", var |-> var]
CustomCode(text) == [k |-> "custom", text |-> text]
Block(body) == [k |-> "block", body |-> body]
\* Statement::For(var_decl, cond) with inc (default ++var) and statements
For(typ, var, init, cond, inc, body) ==
  [k |-> "for", typ |-> typ, var |-> var, init |-> init, cond |-> cond,
   inc |-> inc, body |-> body]

IsFor(s) == s.k = "for"

mutex_lock == Fn_Call("lock_shared", <<Vacc(MUTEX)>>)
\* the unlock taken over from mutex_lock with its method name
mutex_unlock_locking == Fn_Call("lock_shared", <<Vacc(MUTEX)>>)

mutex_unlock == Fn_Call("unlock_shared", <<Vacc(MUTEX)>>)

(***************************************************************************)
(* get_tile_computation                                                    *)
(***************************************************************************)
get_tile_computation(ast, name_maxtilen, input_seq, just_tilesize) ==
  LET head == IF ~ast.checkpoint \/ just_tilesize
              THEN << Var_Decl("size", "tile_size", Const(DefaultTileSize)),
                      CustomCode("#ifdef TILE_SIZE"),
                      Var_Assign("tile_size", Vacc("TILE_SIZE")),
                      CustomCode("#endif") >>
              ELSE << >>
      tail == << Fn_Assert("tile_size"),
                 Var_Decl("size", "max_tiles",
                          Div(SizeCall(input_seq), Vacc("tile_size"))),
                 Var_Decl("int", name_maxtilen,
                          Times(Vacc("max_tiles"), Vacc("tile_size"))) >>
  IN IF just_tilesize THEN head ELSE head \o tail

(***************************************************************************)
(* CYKloop constructors                                                    *)
(***************************************************************************)
get_for_column(running_boundary, start, end, with_checkpoint, mode) ==
  LET ck == with_checkpoint /\ mode # "OPENMP_PARALLEL"
      t == IF ck THEN "" ELSE "size"
      st == IF ck
            THEN Cond(VaccPostInc(LoadedName(running_boundary)), start,
                      Vacc(running_boundary))
            ELSE start
  IN [loop |-> For(t, running_boundary, st, Less(Vacc(running_boundary), end),
                   Const(1), << >>),
      end_state |-> Var_Decl(t, running_boundary, end)]

\* get_for_row with the row loop walking away from the diagonal's end:
\* from end + 1 upwards while the index is at most start
get_for_row_ascending(running_boundary, start, end, with_checkpoint, mode) ==
  LET t == IF mode = "OPENMP_PARALLEL" THEN "int" ELSE "size"
  IN [loop |-> For(t, running_boundary, Plus(end, Const(1)),
                   Less(Vacc(running_boundary), Plus(start, Const(1))),
                   Const(1), << >>),
      end_state |-> Var_Decl(t, running_boundary, Const(1))]

\* get_for_row with the row loop running one step too far (> end - 1)
get_for_row_overrun(running_boundary, start, end, with_checkpoint, mode) ==
  LET t == IF mode = "OPENMP_PARALLEL" THEN "int" ELSE "size"
  IN [loop |-> For(t, running_boundary, start,
                   Greater(Vacc(running_boundary), Minus(end, Const(1))),
                   Const(-1), << >>),
      end_state |-> Var_Decl(t, running_boundary, Const(1))]

\* get_for_row with the branches of the checkpointed start exchanged: the
\* restored value while the flag says "already loaded"
get_for_row_restored_first(running_boundary, start, end, with_checkpoint, mode) ==
  LET ck == with_checkpoint /\ mode # "OPENMP_PARALLEL"
      t == IF ck THEN ""
           ELSE IF mode = "OPENMP_PARALLEL" THEN "int" ELSE "size"
      st == IF ck
            THEN Cond(VaccPostInc(LoadedName(running_boundary)),
                      Vacc(running_boundary), start)
            ELSE start
  IN [loop |-> For(t, running_boundary, st,
                   Greater(Vacc(running_boundary), end), Const(-1), << >>),
      end_state |-> Var_Decl(t, running_boundary, Const(1))]

get_for_row(running_boundary, start, end, with_checkpoint, mode) ==
  LET ck == with_checkpoint /\ mode # "OPENMP_PARALLEL"
      t == IF ck THEN ""
           ELSE IF mode = "OPENMP_PARALLEL" THEN "int" ELSE "size"
      st == IF ck
            THEN Cond(VaccPostInc(LoadedName(running_boundary)), start,
                      Vacc(running_boundary))
            ELSE start
      cond_row == IF mode = "SINGLETHREAD_OUTSIDE"
                  THEN Less(Vacc(running_boundary), end)
                  ELSE Greater(Vacc(running_boundary), end)
      inc == IF mode # "SINGLETHREAD_OUTSIDE" THEN Const(-1) ELSE Const(1)
  IN [loop |-> For(t, running_boundary, st, cond_row, inc, << >>),
      end_state |-> Var_Decl(t, running_boundary, Const(1))]

\* get_for_openMP stepping by one instead of by the tile size
get_for_openMP_unit_step(loopvar, start, end, inc) ==
  For("int", loopvar, start, Less(Vacc(loopvar), end), Const(1), << >>)

get_for_openMP(loopvar, start, end, inc) ==
  For("int", loopvar, start, Less(Vacc(loopvar), end), Vacc(inc), << >>)

(***************************************************************************)
(* Quadrant builder and multi-track composer                               *)
(***************************************************************************)
cyk_traversal_singlethread_singletrack(track, seq, nested_stmts, with_checkpoint, mode) ==
  LET row_start == Plus(Vacc(RightName(track)), Const(1))
      seqend == SizeCall(seq)
      \* A
      row == get_for_row(LeftName(track), row_start, Const(1),
                         with_checkpoint, mode)
      rowLoop == [row.loop EXCEPT !.body = nested_stmts]
      alt_start == IF mode = "OPENMP_SERIAL" THEN Vacc("max_tiles_n")
                   ELSE Const(0)
      col == get_for_column(RightName(track), alt_start, seqend,
                            with_checkpoint, mode)
      \* B
      colLoop == [col.loop EXCEPT
                    !.body = << rowLoop, row.end_state >> \o nested_stmts]
      \* C
      rowC == get_for_row(LeftName(track), row_start, Const(1),
                          with_checkpoint, mode)
      rowCLoop == [rowC.loop EXCEPT !.body = nested_stmts]
  IN \* D
     << colLoop, col.end_state, rowCLoop, rowC.end_state >> \o nested_stmts

cyk_traversal_singlethread_singletrack_outside(track, seq, nested_stmts, with_checkpoint, mode) ==
  LET seqend == SizeCall(seq)
      col == get_for_column(RightName(track),
                            Minus(seqend, Vacc(LeftName(track))),
                            Plus(seqend, Const(1)), with_checkpoint, mode)
      colLoop == [col.loop EXCEPT !.body = nested_stmts]
      row == get_for_row(LeftName(track), Const(0), Plus(seqend, Const(1)),
                         with_checkpoint, mode)
      rowLoop == [row.loop EXCEPT !.body = << colLoop >>]
  IN << rowLoop >>

RECURSIVE TraversalFrom(_, _, _, _)
\* the loop over the tracks, from `track` down to 0
TraversalFrom(track, stmts, ast, mode) ==
  IF track < 0 THEN stmts
  ELSE TraversalFrom(track - 1,
         IF mode = "SINGLETHREAD_OUTSIDE"
         THEN cyk_traversal_singlethread_singletrack_outside(
                track, SeqName(track), stmts, ast.checkpoint, mode)
         ELSE cyk_traversal_singlethread_singletrack(
                track, SeqName(track), stmts, ast.checkpoint, mode),
         ast, mode)

RECURSIVE TraversalUpFrom(_, _, _, _)
\* the loop over the tracks, run from `track` up to the last one
TraversalUpFrom(track, stmts, ast, mode) ==
  IF track >= ast.tracks THEN stmts
  ELSE TraversalUpFrom(track + 1,
         IF mode = "SINGLETHREAD_OUTSIDE"
         THEN cyk_traversal_singlethread_singletrack_outside(
                track, SeqName(track), stmts, ast.checkpoint, mode)
         ELSE cyk_traversal_singlethread_singletrack(
                track, SeqName(track), stmts, ast.checkpoint, mode),
         ast, mode)

\* cyk_traversal_singlethread iterating the tracks forwards: the first
\* track is wrapped first and ends up innermost
cyk_traversal_singlethread_forward(ast, mode) ==
  TraversalUpFrom(0, << >>, ast, mode)

cyk_traversal_singlethread(ast, mode) ==
  TraversalFrom(ast.tracks - 1, << >>, ast, mode)

(***************************************************************************)
(* Tile scheduler                                                          *)
(***************************************************************************)
\* the tile scheduler (as generated without checkpoint support) with the
\* work-sharing pragma of part B on the z loop instead of the y loop: the
\* rounds of part B are shared among the team
cyk_traversal_multithread_parallel_shared_z(ast, seq, tile_size, name_maxtilen, with_checkpoint) ==
  LET z == Vacc("z")
      y == Vacc("y")
      x == Var_Decl("size", "x", Plus(Minus(y, z), Vacc(tile_size)))
      row == get_for_row(LeftName(0), Plus(Vacc(RightName(0)), Const(1)), z,
                         with_checkpoint, "OPENMP_PARALLEL")
      col == get_for_column(RightName(0), z, Plus(z, Vacc(tile_size)),
                            with_checkpoint, "OPENMP_PARALLEL")
      loop_zA == get_for_openMP("z", Const(0), Vacc(name_maxtilen), tile_size)
      rowB == get_for_row(LeftName(0), Vacc("x"),
                          Minus(Vacc("x"), Vacc(tile_size)), with_checkpoint,
                          "OPENMP_PARALLEL")
      colB == get_for_column(RightName(0), y, Plus(y, Vacc(tile_size)),
                             with_checkpoint, "OPENMP_PARALLEL")
      loop_y == get_for_openMP("y", z, Vacc(name_maxtilen), tile_size)
      loop_zB == get_for_openMP("z", Vacc(tile_size), Vacc(name_maxtilen),
                                tile_size)
  IN << [loop_zA EXCEPT !.body =
           << [col.loop EXCEPT !.body = << row.loop >>] >>],
        CustomCode("#pragma omp for"),
        [loop_zB EXCEPT !.body =
           << [loop_y EXCEPT !.body =
                 << x, [colB.loop EXCEPT !.body = << rowB.loop >>] >>] >>] >>

\* the tile scheduler with the commit blocks emitted as plain blocks, without
\* the "#pragma omp ordered" in front of them
cyk_traversal_multithread_parallel_unordered(ast, seq, tile_size, name_maxtilen, with_checkpoint) ==
  LET track == 0
      row_start == Plus(Vacc(RightName(track)), Const(1))
      z == Vacc("z")
      y == Vacc("y")
      x == Var_Decl("size", "x", Plus(Minus(y, z), Vacc(tile_size)))
      \* part A
      row == get_for_row(LeftName(track), row_start, z, with_checkpoint,
                         "OPENMP_PARALLEL")
      col == get_for_column(RightName(track), z, Plus(z, Vacc(tile_size)),
                            with_checkpoint, "OPENMP_PARALLEL")
      colLoop == [col.loop EXCEPT !.body = << row.loop >>]
      start_z == IF with_checkpoint
                 THEN Vacc(StartName(VARNAME_OuterLoop1)) ELSE Const(0)
      loop_zA == get_for_openMP("z", start_z, Vacc(name_maxtilen), tile_size)
      blk_omp == Block(<<
          CustomCode("// force omp to wait for all threads to finish their current batch (of size tile_size)"),
          Var_Assign(VARNAME_OuterLoop1, Plus(start_z, Vacc(tile_size))),
          mutex_unlock >>)
      bodyA == (IF with_checkpoint THEN << mutex_lock >> ELSE << >>)
               \o << colLoop >>
               \o (IF with_checkpoint THEN << blk_omp >> ELSE << >>)
      \* part B
      rowB == get_for_row(LeftName(track), Vacc("x"),
                          Minus(Vacc("x"), Vacc(tile_size)), with_checkpoint,
                          "OPENMP_PARALLEL")
      colB == get_for_column(RightName(track), y, Plus(y, Vacc(tile_size)),
                             with_checkpoint, "OPENMP_PARALLEL")
      colBLoop == [colB.loop EXCEPT !.body = << rowB.loop >>]
      start_y == IF with_checkpoint
                 THEN Cond(Vacc(LoadedName(VARNAME_InnerLoop2)), z,
                           Vacc(StartName(VARNAME_InnerLoop2)))
                 ELSE z
      loop_y == get_for_openMP("y", start_y, Vacc(name_maxtilen), tile_size)
      blk_omp2 == Block(<<
          Var_Assign(VARNAME_InnerLoop2,
                     Plus(Vacc(VARNAME_InnerLoop2), Vacc(tile_size))),
          Var_Assign(VARNAME_OuterLoop2, z),
          mutex_unlock >>)
      bodyY == (IF with_checkpoint
                THEN << CustomCode("++inner_loop_2_idx_loaded;"), mutex_lock >>
                ELSE << >>)
               \o << x, colBLoop >>
               \o (IF with_checkpoint THEN << blk_omp2 >> ELSE << >>)
      start_z2 == IF with_checkpoint
                  THEN Vacc(StartName(VARNAME_OuterLoop2))
                  ELSE Vacc(tile_size)
      loop_zB == get_for_openMP("z", start_z2, Vacc(name_maxtilen), tile_size)
      bodyZB == << IF with_checkpoint
                   THEN CustomCode("#pragma omp for ordered schedule(dynamic)")
                   ELSE CustomCode("#pragma omp for"),
                   [loop_y EXCEPT !.body = bodyY] >>
                \o (IF with_checkpoint
                    THEN << Var_Assign(VARNAME_InnerLoop2,
                                       Plus(z, Vacc(tile_size))) >>
                    ELSE << >>)
  IN << [loop_zA EXCEPT !.body = bodyA], [loop_zB EXCEPT !.body = bodyZB] >>

cyk_traversal_multithread_parallel(ast, seq, tile_size, name_maxtilen, with_checkpoint) ==
  LET track == 0
      row_start == Plus(Vacc(RightName(track)), Const(1))
      z == Vacc("z")
      y == Vacc("y")
      x == Var_Decl("size", "x", Plus(Minus(y, z), Vacc(tile_size)))
      \* part A
      row == get_for_row(LeftName(track), row_start, z, with_checkpoint,
                         "OPENMP_PARALLEL")
      col == get_for_column(RightName(track), z, Plus(z, Vacc(tile_size)),
                            with_checkpoint, "OPENMP_PARALLEL")
      colLoop == [col.loop EXCEPT !.body = << row.loop >>]
      start_z == IF with_checkpoint
                 THEN Vacc(StartName(VARNAME_OuterLoop1)) ELSE Const(0)
      loop_zA == get_for_openMP("z", start_z, Vacc(name_maxtilen), tile_size)
      blk_omp == Block(<<
          CustomCode("// force omp to wait for all threads to finish their current batch (of size tile_size)"),
          Var_Assign(VARNAME_OuterLoop1, Plus(start_z, Vacc(tile_size))),
          mutex_unlock >>)
      bodyA == (IF with_checkpoint THEN << mutex_lock >> ELSE << >>)
               \o << colLoop >>
               \o (IF with_checkpoint
                   THEN << CustomCode("#pragma omp ordered"), blk_omp >>
                   ELSE << >>)
      \* part B
      rowB == get_for_row(LeftName(track), Vacc("x"),
                          Minus(Vacc("x"), Vacc(tile_size)), with_checkpoint,
                          "OPENMP_PARALLEL")
      colB == get_for_column(RightName(track), y, Plus(y, Vacc(tile_size)),
                             with_checkpoint, "OPENMP_PARALLEL")
      colBLoop == [colB.loop EXCEPT !.body = << rowB.loop >>]
      start_y == IF with_checkpoint
                 THEN Cond(Vacc(LoadedName(VARNAME_InnerLoop2)), z,
                           Vacc(StartName(VARNAME_InnerLoop2)))
                 ELSE z
      loop_y == get_for_openMP("y", start_y, Vacc(name_maxtilen), tile_size)
      blk_omp2 == Block(<<
          Var_Assign(VARNAME_InnerLoop2,
                     Plus(Vacc(VARNAME_InnerLoop2), Vacc(tile_size))),
          Var_Assign(VARNAME_OuterLoop2, z),
          mutex_unlock >>)
      bodyY == (IF with_checkpoint
                THEN << CustomCode("++inner_loop_2_idx_loaded;"), mutex_lock >>
                ELSE << >>)
               \o << x, colBLoop >>
               \o (IF with_checkpoint
                   THEN << CustomCode("#pragma omp ordered"), blk_omp2 >>
                   ELSE << >>)
      start_z2 == IF with_checkpoint
                  THEN Vacc(StartName(VARNAME_OuterLoop2))
                  ELSE Vacc(tile_size)
      loop_zB == get_for_openMP("z", start_z2, Vacc(name_maxtilen), tile_size)
      bodyZB == << IF with_checkpoint
                   THEN CustomCode("#pragma omp for ordered schedule(dynamic)")
                   ELSE CustomCode("#pragma omp for"),
                   [loop_y EXCEPT !.body = bodyY] >>
                \o (IF with_checkpoint
                    THEN << Var_Assign(VARNAME_InnerLoop2,
                                       Plus(z, Vacc(tile_size))) >>
                    ELSE << >>)
  IN << [loop_zA EXCEPT !.body = bodyA], [loop_zB EXCEPT !.body = bodyZB] >>

(***************************************************************************)
(* NT-call placement                                                       *)
(***************************************************************************)
NtCallsAndLoops(body) ==
  {i \in 1..Len(body) :
     \/ body[i].k = "call" /\ IsNtCallName(body[i].name)
     \/ body[i].k = "for"}

count_nt_calls_and_loops(loop) == Cardinality(NtCallsAndLoops(loop.body))

RemoveAt(list, pos) == SubSeq(list, 1, pos - 1) \o SubSeq(list, pos + 1, Len(list))

RECURSIVE PruneFrom(_, _, _)
\* the loop "for (s = begin; s != end; ++s) if (...) s = stmts.erase(s);"
\* with the iterator at position pos.  erase returns the successor, which
\* the loop header then steps over; stepping over end() is undefined, ub
\* names what the build does there ("wrap": std::list's end() node links
\* back to begin(); "stop": the loop ends; "crash": the process dies).
PruneFrom(list, pos, ub) ==
  IF pos > Len(list) THEN [list |-> list, crash |-> FALSE]
  ELSE IF IsFor(list[pos]) /\ count_nt_calls_and_loops(list[pos]) = 0
  THEN LET erased == RemoveAt(list, pos)
       IN IF pos <= Len(erased) THEN PruneFrom(erased, pos + 1, ub)
          ELSE CASE ub = "wrap" -> PruneFrom(erased, 1, ub)
                 [] ub = "stop" -> [list |-> erased, crash |-> FALSE]
                 [] OTHER -> [list |-> erased, crash |-> TRUE]
  ELSE PruneFrom(list, pos + 1, ub)

RECURSIVE NtArgs_left_unshifted(_, _)
\* NtArgs passing the left index as it is, without the minus 1
NtArgs_left_unshifted(nt, t) ==
  IF t >= Len(nt.tables) THEN << >>
  ELSE (IF ~nt.tables[t + 1].delete_left_index
        THEN << Vacc(LeftName(t)) >> ELSE << >>)
       \o (IF ~nt.tables[t + 1].delete_right_index
           THEN << Vacc(RightName(t)) >> ELSE << >>)
       \o NtArgs_left_unshifted(nt, t + 1)

RECURSIVE NtArgs(_, _)
\* the argument list of one NT call, tracks t..tracks()-1
NtArgs(nt, t) ==
  IF t >= Len(nt.tables) THEN << >>
  ELSE (IF ~nt.tables[t + 1].delete_left_index
        THEN << Minus(Vacc(LeftName(t)), Const(1)) >> ELSE << >>)
       \o (IF ~nt.tables[t + 1].delete_right_index
           THEN << Vacc(RightName(t)) >> ELSE << >>)
       \o NtArgs(nt, t + 1)

InVars(loop_vars, name) == \E i \in 1..Len(loop_vars) : loop_vars[i] = name

\* used_indices counting the live indices of the table without looking
\* whether their loops are on the stack
used_indices_ignoring_loops(nt, loop_vars) ==
  Cardinality({t \in 0..(Len(nt.tables) - 1) :
                 ~nt.tables[t + 1].delete_left_index})
  + Cardinality({t \in 0..(Len(nt.tables) - 1) :
                   ~nt.tables[t + 1].delete_right_index})

used_indices(nt, loop_vars) ==
  Cardinality({t \in 0..(Len(nt.tables) - 1) :
                 ~nt.tables[t + 1].delete_left_index
                 /\ InVars(loop_vars, LeftName(t))})
  + Cardinality({t \in 0..(Len(nt.tables) - 1) :
                   ~nt.tables[t + 1].delete_right_index
                   /\ InVars(loop_vars, RightName(t))})

RECURSIVE NtCallsFrom(_, _, _)
\* the loop over orderedNTs, from position i on
NtCallsFrom(orderedNTs, i, loop_vars) ==
  IF i > Len(orderedNTs) THEN [calls |-> << >>, abort |-> FALSE]
  ELSE LET nt == orderedNTs[i]
           rest == NtCallsFrom(orderedNTs, i + 1, loop_vars)
       IN IF ~nt.is_tabulated THEN rest
          ELSE IF used_indices(nt, loop_vars) = Len(loop_vars)
          THEN IF ~nt.has_code  \* assert((*i)->code_list().size() > 0)
               THEN [calls |-> << >>, abort |-> TRUE]
               ELSE [calls |-> << Fn_Call(nt.name, NtArgs(nt, 0)) >> \o rest.calls,
                     abort |-> rest.abort]
          ELSE rest

RECURSIVE add_nt_calls(_, _, _, _, _, _)
\* returns the rewritten statement list (the C++ code rewrites it in place),
\* the list of calls the caller appends, and whether generation died
add_nt_calls(stmts, loop_vars, orderedNTs, with_checkpoint, mode, ub) ==
  LET contains_nested_for == \E i \in 1..Len(stmts) : IsFor(stmts[i])
      next_loop_vars(fl) ==
        IF mode # "OPENMP_PARALLEL" \/ StartsWithT(fl.var)
        THEN Append(loop_vars, fl.var) ELSE loop_vars
      sub == [i \in 1..Len(stmts) |->
                IF IsFor(stmts[i])
                THEN add_nt_calls(stmts[i].body, next_loop_vars(stmts[i]),
                                  orderedNTs, with_checkpoint, mode, ub)
                ELSE [stmts |-> << >>, nt |-> << >>, abort |-> FALSE]]
      recursed == [i \in 1..Len(stmts) |->
                     IF IsFor(stmts[i])
                     THEN [stmts[i] EXCEPT !.body = sub[i].stmts \o sub[i].nt]
                     ELSE stmts[i]]
      sub_abort == \E i \in 1..Len(stmts) : sub[i].abort
      pruned == PruneFrom(recursed, 1, ub)
      lock == IF with_checkpoint
              THEN IF mode = "SINGLETHREAD"
                   THEN << CustomCode("std::lock_guard<fair_mutex> lock(mutex);") >>
                   ELSE IF mode = "OPENMP_SERIAL" THEN << mutex_lock >>
                        ELSE << >>
              ELSE << >>
      nts == NtCallsFrom(orderedNTs, 1, loop_vars)
      unlock == IF with_checkpoint /\ mode = "OPENMP_SERIAL"
                THEN << mutex_unlock >> ELSE << >>
  IN IF sub_abort \/ pruned.crash
     THEN [stmts |-> pruned.list, nt |-> << >>, abort |-> TRUE]
     ELSE IF mode = "OPENMP_PARALLEL" /\ contains_nested_for
     THEN [stmts |-> pruned.list, nt |-> << >>, abort |-> FALSE]
     ELSE [stmts |-> pruned.list, nt |-> lock \o nts.calls \o unlock,
           abort |-> nts.abort]

(***************************************************************************)
(* print_CYK                                                               *)
(***************************************************************************)
RECURSIVE LoadedFlags(_, _)
\* the declarations of the *_loaded markers, tracks track..tracks-1
LoadedFlags(track, tracks) ==
  IF track >= tracks THEN << >>
  ELSE << Var_Decl("int", LoadedName(LeftName(track)),
                   Or(Not(Vacc("load_checkpoint")), Not(Vacc(LeftName(track))))),
          Var_Decl("int", LoadedName(RightName(track)),
                   Or(Not(Vacc("load_checkpoint")), Not(Vacc(RightName(track))))) >>
       \o LoadedFlags(track + 1, tracks)

CheckpointHeader ==
  << CustomCode("int outer_loop_1_idx_loaded = !load_checkpoint || !outer_loop_1_idx;"),
     CustomCode("int outer_loop_2_idx_loaded = !load_checkpoint || !outer_loop_2_idx;"),
     CustomCode("int inner_loop_2_idx_loaded = !load_checkpoint || !inner_loop_2_idx;"),
     CustomCode("int outer_loop_1_idx_start = (outer_loop_1_idx_loaded++) ? 0 : outer_loop_1_idx;"),
     CustomCode("int outer_loop_2_idx_start = (outer_loop_2_idx_loaded++) ? tile_size : outer_loop_2_idx;"),
     CustomCode("int inner_loop_2_idx_start = inner_loop_2_idx;") >>

\* print_CYK without the early return for grammars that request no CYK
\* evaluation: the single-thread part is emitted whatever ast.cyk() says
print_CYK_unguarded(ast, ub) ==
  [name |-> "cyk",
   stmts |-> (IF ast.checkpoint THEN LoadedFlags(0, ast.tracks) ELSE << >>)
             \o << CustomCode("#ifndef _OPENMP") >>
             \o cyk_traversal_singlethread(ast,
                  IF ast.outside_generation THEN "SINGLETHREAD_OUTSIDE"
                  ELSE "SINGLETHREAD")
             \o << CustomCode("#else"), CustomCode("#endif") >>,
   abort |-> FALSE]

\* the result is the Fn_Def (name, stmts); abort tells that an assertion of
\* the generator failed (or the build's undefined behaviour killed it) and
\* no Fn_Def was returned
print_CYK(ast, ub) ==
  IF ~ast.cyk THEN [name |-> "cyk", stmts |-> << >>, abort |-> FALSE]
  ELSE
  LET name_maxtilen == "max_tiles_n"
      seq == SeqName(ast.tracks - 1)   \* *ast.seq_decls.rbegin()
      flags == IF ast.checkpoint THEN LoadedFlags(0, ast.tracks) ELSE << >>
      \* ==== single thread version (NT calls are not added here)
      single == cyk_traversal_singlethread(ast,
                  IF ast.outside_generation THEN "SINGLETHREAD_OUTSIDE"
                  ELSE "SINGLETHREAD")
      \* ==== multi thread version
      header == IF ast.checkpoint
                THEN get_tile_computation(ast, name_maxtilen, seq, TRUE)
                     \o CheckpointHeader
                ELSE << >>
      stmts_tilesize == get_tile_computation(ast, name_maxtilen, seq, FALSE)
      par == add_nt_calls(
               cyk_traversal_multithread_parallel(ast, seq, "tile_size",
                                                  name_maxtilen, ast.checkpoint),
               << >>, ast.topological_ord, ast.checkpoint,
               "OPENMP_PARALLEL", ub)
      blk_parallel == Block(
          stmts_tilesize
          \o << IF ast.checkpoint
                THEN CustomCode("#pragma omp for ordered schedule(dynamic)")
                ELSE CustomCode("#pragma omp for"),
                CustomCode("// OPENMP < 3 requires signed int here ...") >>
          \o par.stmts \o par.nt
          \o << CustomCode("// end parallel") >>)
      ser == add_nt_calls(cyk_traversal_singlethread(ast, "OPENMP_SERIAL"),
                          << >>, ast.topological_ord, ast.checkpoint,
                          "OPENMP_SERIAL", ub)
      multi == IF ast.tracks = 1
               THEN header \o << CustomCode("#pragma omp parallel"), blk_parallel >>
                    \o stmts_tilesize \o ser.stmts \o ser.nt
               ELSE << >>
  IN [name |-> "cyk",
      stmts |-> flags \o << CustomCode("#ifndef _OPENMP") >> \o single
                \o << CustomCode("#else") >> \o multi
                \o << CustomCode("#endif") >>,
      abort |-> ast.tracks = 1 /\ (par.abort \/ ser.abort)]

(***************************************************************************)
(* The single-thread traversal with its NT calls: the traversal handed to  *)
(* add_nt_calls and the returned calls appended, as print_CYK does at      *)
(* every place where it calls add_nt_calls.                                *)
(***************************************************************************)
traversal_with_calls(ast, mode, ub) ==
  LET r == add_nt_calls(cyk_traversal_singlethread(ast, mode), << >>,
                        ast.topological_ord, ast.checkpoint, mode, ub)
  IN [name |-> "cyk",
      stmts |-> (IF ast.checkpoint THEN LoadedFlags(0, ast.tracks) ELSE << >>)
                \o r.stmts \o r.nt,
      abort |-> r.abort]

(***************************************************************************)
(* Part 2: the meaning of the emitted statements.                          *)
(***************************************************************************)
VARIABLES
  ast,       \* the generator's input (AST flags, tracks, ordered NTs)
  build,     \* how the output is compiled and run (_OPENMP, TILE_SIZE, team)
  fn,        \* the Fn_Def returned by the generator
  status,    \* "gen", "run", "done", "aborted", "illformed"
  glob,      \* variables of function or file scope (shared by the team)
  thr,       \* per thread: control stack, private variables, ...
  mutex,     \* the fair_mutex: shared holders and the exclusive holder
  ws,        \* the current work-sharing construct of the team
  log,       \* the NT calls in the order of evaluation (kept while one
             \* thread runs; a team has no single order)
  tab,       \* the DP tables: per cell what its evaluations found
  acts,      \* the activations of loops with a checkpointed start
  saved,     \* cells evaluated before the snapshot a resumed run started from
  restarts   \* number of resumes so far

vars == << ast, build, fn, status, glob, thr, mutex, ws, log, tab, acts,
           saved, restarts >>

Threads == 1..MaxThreads
Master == 1
Team == 1..build.nthreads

(***************************************************************************)
(* The preprocessor: #ifndef _OPENMP / #ifdef TILE_SIZE / #else / #endif   *)
(***************************************************************************)
IsDirective(s) ==
  s.k = "custom"
  /\ s.text \in {"#ifndef _OPENMP", "#ifdef TILE_SIZE", "#else", "#endif"}

AllTrue(flags) == \A i \in 1..Len(flags) : flags[i]

RECURSIVE Preprocess(_, _, _, _)
Preprocess(stmts, i, flags, defs) ==
  IF i > Len(stmts) THEN << >>
  ELSE LET s == stmts[i]
       IN IF IsDirective(s)
          THEN Preprocess(stmts, i + 1,
                 CASE s.text = "#ifndef _OPENMP" -> Append(flags, ~defs.openmp)
                   [] s.text = "#ifdef TILE_SIZE" -> Append(flags, defs.tile > 0)
                   [] s.text = "#else" ->
                        [flags EXCEPT ![Len(flags)] = ~flags[Len(flags)]]
                   [] OTHER -> SubSeq(flags, 1, Len(flags) - 1),
                 defs)
          ELSE IF ~AllTrue(flags) THEN Preprocess(stmts, i + 1, flags, defs)
          ELSE << IF s.k = "block"
                  THEN [s EXCEPT !.body = Preprocess(s.body, 1, << >>, defs)]
                  ELSE s >>
               \o Preprocess(stmts, i + 1, flags, defs)

(***************************************************************************)
(* The meaning of the CustomCode texts that are C++ statements.            *)
(***************************************************************************)
IsComment(s) ==
  s.k = "custom"
  /\ s.text \in {"// OPENMP < 3 requires signed int here ...",
                 "// end parallel",
                 "// force omp to wait for all threads to finish their current batch (of size tile_size)"}

PragmaOf(s) ==
  CASE s.text = "#pragma omp parallel" -> "parallel"
    [] s.text = "#pragma omp for" -> "for"
    [] s.text = "#pragma omp for ordered schedule(dynamic)" -> "for_ordered"
    [] s.text = "#pragma omp ordered" -> "ordered"
    [] OTHER -> ""

IsPragma(s) == s.k = "custom" /\ PragmaOf(s) # ""

IsLockGuard(s) ==
  s.k = "custom" /\ s.text = "std::lock_guard<fair_mutex> lock(mutex);"

\* a flag initialised from load_checkpoint alone
LoadedInit_ignoring_value(name) ==
  Var_Decl("int", LoadedName(name), Not(Vacc("load_checkpoint")))

LoadedInit(name) ==
  Var_Decl("int", LoadedName(name),
           Or(Not(Vacc("load_checkpoint")), Not(Vacc(name))))

\* the statement a CustomCode text stands for
CustomStmt(s) ==
  IF s.k # "custom" THEN s ELSE
  CASE s.text = "int outer_loop_1_idx_loaded = !load_checkpoint || !outer_loop_1_idx;"
         -> LoadedInit("outer_loop_1_idx")
    [] s.text = "int outer_loop_2_idx_loaded = !load_checkpoint || !outer_loop_2_idx;"
         -> LoadedInit("outer_loop_2_idx")
    [] s.text = "int inner_loop_2_idx_loaded = !load_checkpoint || !inner_loop_2_idx;"
         -> LoadedInit("inner_loop_2_idx")
    [] s.text = "int outer_loop_1_idx_start = (outer_loop_1_idx_loaded++) ? 0 : outer_loop_1_idx;"
         -> Var_Decl("int", "outer_loop_1_idx_start",
                     Cond(VaccPostInc("outer_loop_1_idx_loaded"), Const(0),
                          Vacc("outer_loop_1_idx")))
    [] s.text = "int outer_loop_2_idx_start = (outer_loop_2_idx_loaded++) ? tile_size : outer_loop_2_idx;"
         -> Var_Decl("int", "outer_loop_2_idx_start",
                     Cond(VaccPostInc("outer_loop_2_idx_loaded"),
                          Vacc("tile_size"), Vacc("outer_loop_2_idx")))
    [] s.text = "int inner_loop_2_idx_start = inner_loop_2_idx;"
         -> Var_Decl("int", "inner_loop_2_idx_start", Vacc("inner_loop_2_idx"))
    [] s.text = "++inner_loop_2_idx_loaded;"
         -> Var_Assign("inner_loop_2_idx_loaded",
                       Plus(Vacc("inner_loop_2_idx_loaded"), Const(1)))
    [] OTHER -> s

(***************************************************************************)
(* Expressions                                                             *)
(***************************************************************************)
Lookup(loc, g, name) == IF name \in DOMAIN loc THEN loc[name] ELSE g[name]

B2I(b) == IF b THEN 1 ELSE 0

RECURSIVE Eval(_, _, _)
Eval(x, loc, g) ==
  CASE x.e = "const" -> x.v
    [] x.e = "vacc" -> Lookup(loc, g, x.name)
    [] x.e = "postinc" -> Lookup(loc, g, x.name)
    [] x.e = "size" -> g[x.name]
    [] x.e = "plus" -> Eval(x.l, loc, g) + Eval(x.r, loc, g)
    [] x.e = "minus" -> Eval(x.l, loc, g) - Eval(x.r, loc, g)
    [] x.e = "times" -> Eval(x.l, loc, g) * Eval(x.r, loc, g)
    [] x.e = "div" -> Eval(x.l, loc, g) \div Eval(x.r, loc, g)
    [] x.e = "less" -> B2I(Eval(x.l, loc, g) < Eval(x.r, loc, g))
    [] x.e = "greater" -> B2I(Eval(x.l, loc, g) > Eval(x.r, loc, g))
    [] x.e = "or" -> B2I(Eval(x.l, loc, g) # 0 \/ Eval(x.r, loc, g) # 0)
    [] x.e = "not" -> B2I(Eval(x.l, loc, g) = 0)
    [] x.e = "cond" -> IF Eval(x.c, loc, g) # 0 THEN Eval(x.t, loc, g)
                       ELSE Eval(x.f, loc, g)

\* the variables an evaluation of x post-increments (only the condition of
\* a Cond carries one in the emitted code)
PostIncs(x) ==
  IF x.e = "cond" /\ x.c.e = "postinc" THEN {x.c.name} ELSE {}

\* a start expression that chooses between the natural start and the
\* restored value, and whether it chooses the restored value
IsCheckpointStart(x) == x.e = "cond"
TakesRestored(x, loc, g) == x.e = "cond" /\ Eval(x.c, loc, g) = 0

Ext(f, name, val) ==
  [v \in DOMAIN f \cup {name} |-> IF v = name THEN val ELSE f[v]]

\* the largest value of the int of the build: INT_MAX, or that of the
\* narrow int a build is given to bring the overflow within reach
IntMax == IF "intmax" \in DOMAIN build THEN build.intmax ELSE INT_MAX

\* x++ on an int: the value after the largest one is the smallest one
Inc(x) == IF x >= IntMax THEN 0 - IntMax - 1 ELSE x + 1

Bump(g, names) == [v \in DOMAIN g |-> IF v \in names THEN Inc(g[v]) ELSE g[v]]

(***************************************************************************)
(* Threads.  A thread walks the tree with a stack of frames; the top frame *)
(* is the last one.  pc is the position in body: 1..Len(body) a statement, *)
(* Len(body)+1 the closing brace, 0 the loop test (kind "for") or the      *)
(* hand-out of the next iteration (kind "ws"), -1 the barrier that ends a  *)
(* work-shared loop.                                                       *)
(***************************************************************************)
NoNode == For("", "", Const(0), Const(0), Const(0), << >>)

\* dom: the private variables in scope where the frame was entered
Frame(kind, body, pc, node, dom) ==
  [kind |-> kind, body |-> body, pc |-> pc, node |-> node, guard |-> FALSE,
   dom |-> dom]

IdleThread ==
  [stack |-> << >>, loc |-> << >>, prag |-> "", par |-> FALSE, wsn |-> 0,
   iter |-> 0, last |-> 0, st |-> "idle"]

NoWs == [id |-> 0, iters |-> << >>, taken |-> {}, ordNext |-> 1,
         arrived |-> {}, dyn |-> FALSE, starts |-> {}, commits |-> << >>]

\* shared: per thread the shared locks it holds; excl: the exclusive
\* holder (0: none); pend: an exclusive request is waiting
FreeMutex == [shared |-> [t \in Threads |-> 0], excl |-> 0, pend |-> FALSE]

\* the thread that writes the checkpoints
Checkpointer == MaxThreads + 1

TopF(th) == th.stack[Len(th.stack)]
Restrict(f, D) ==
  IF DOMAIN f \cap D = {} THEN << >> ELSE [v \in DOMAIN f \cap D |-> f[v]]
\* leave the top frame: the variables declared inside go out of scope
Leave(th) ==
  [th EXCEPT !.stack = SubSeq(@, 1, Len(@) - 1),
             !.loc = Restrict(@, TopF(th).dom)]
SetTop(th, f) == [th EXCEPT !.stack[Len(th.stack)] = f]
Pop(th) == [th EXCEPT !.stack = SubSeq(@, 1, Len(@) - 1)]
Push(th, f) == [th EXCEPT !.stack = Append(@, f)]
NextPc(th) == SetTop(th, [TopF(th) EXCEPT !.pc = @ + 1])

Pos(th) ==
  IF th.stack = << >> THEN "none"
  ELSE LET f == TopF(th)
       IN IF f.pc = 0 THEN (IF f.kind = "ws" THEN "grab" ELSE "test")
          ELSE IF f.pc = -1 THEN "barrier"
          ELSE IF f.pc > Len(f.body) THEN "end"
          ELSE "stmt"

\* the statement under the pc, CustomCode read as the C++ it contains
CurStmt(th) == CustomStmt(TopF(th).body[TopF(th).pc])

\* the loop variables bound around the current position, outermost first
RECURSIVE LoopsOf(_, _)
LoopsOf(stack, i) ==
  IF i > Len(stack) THEN << >>
  ELSE (IF stack[i].kind \in {"for", "ws"} THEN << stack[i].node.var >>
        ELSE << >>) \o LoopsOf(stack, i + 1)

\* a declaration with a type inside the parallel block is private to the
\* thread; everything else names the variable that is in scope
IsPrivateTarget(th, s) ==
  IF s.k \in {"decl", "for"} /\ s.typ # "" THEN th.par
  ELSE s.var \in DOMAIN th.loc

\* a pragma must be followed by the construct it applies to
Illformed(th) ==
  /\ th.prag # ""
  /\ \/ Pos(th) = "end"
     \/ /\ Pos(th) = "stmt"
        /\ LET s == TopF(th).body[TopF(th).pc]
           IN /\ ~IsComment(s)
              /\ ~(th.prag \in {"for", "for_ordered"} /\ s.k = "for")
              /\ ~(th.prag \in {"parallel", "ordered"} /\ s.k = "block")

RECURSIVE Range(_, _, _)
\* the iteration space of "for (v = start; v < end; v += step)"
Range(start, end, step) ==
  IF start < end /\ step > 0
  THEN << start >> \o Range(start + step, end, step) ELSE << >>

(***************************************************************************)
(* One step of thread t in the state S (a record of the mutable            *)
(* variables).  c is the iteration handed out when the step takes one from *)
(* a work-shared loop.                                                     *)
(***************************************************************************)
WriteVar(S, t, s, val, incs) ==
  LET S1 == [S EXCEPT !.glob = Bump(@, incs)]
  IN IF IsPrivateTarget(S.thr[t], s)
     THEN [S1 EXCEPT !.thr[t].loc = Ext(@, s.var, val)]
     ELSE [S1 EXCEPT !.glob = Ext(@, s.var, val)]

NoteStart(S, t, var, x) ==
  IF IsCheckpointStart(x)
  THEN [S EXCEPT !.acts = Append(@, [var |-> var,
          restored |-> TakesRestored(x, S.thr[t].loc, S.glob),
          flips |-> x.c.e = "postinc",
          stored |-> Eval(x.f, S.thr[t].loc, S.glob)])]
  ELSE S

\* an assignment to a progress counter inside an iteration of a work-shared
\* loop is noted in the history of that loop
NoteCommit(S, t, s) ==
  IF s.k = "assign" /\ s.var \in Counters /\ S.thr[t].iter # 0
  THEN [S EXCEPT !.ws.commits =
          Append(@, [iter |-> S.thr[t].iter, var |-> s.var])]
  ELSE S

ExecAssign(S, t, s) ==
  LET th == S.thr[t]
      val == Eval(s.rhs, th.loc, S.glob)
      S1 == NoteCommit(NoteStart(S, t, s.var, s.rhs), t, s)
      S2 == WriteVar(S1, t, s, val, PostIncs(s.rhs))
  IN [S2 EXCEPT !.thr[t] = NextPc(@)]

ExecFor(S, t, s) ==
  LET th == S.thr[t]
      val == Eval(s.init, th.loc, S.glob)
      S1 == NoteStart(S, t, s.var, s.init)
      S2 == WriteVar(S1, t, s, val, PostIncs(s.init))
  IN [S2 EXCEPT !.thr[t] =
        Push(NextPc(@), Frame("for", s.body, 0, s, DOMAIN th.loc))]

\* a thread of the team reaches a loop that follows "#pragma omp for": the
\* first thread to arrive sets up the work share from the bounds it
\* computes, the others join it
ExecWsEnter(S, t, s) ==
  LET th == S.thr[t]
      k == th.wsn + 1
      start == Eval(s.init, th.loc, S.glob)
      end == Eval(s.cond.r, th.loc, S.glob)
      step == Eval(s.inc, th.loc, S.glob)
      first == S.ws.id < k
      S1 == IF first THEN NoteStart(S, t, s.var, s.init) ELSE S
      S2 == [S1 EXCEPT
               !.glob = Bump(@, PostIncs(s.init)),
               !.ws = IF first
                      THEN [id |-> k, iters |-> Range(start, end, step),
                            taken |-> {}, ordNext |-> 1, arrived |-> {},
                            dyn |-> th.prag = "for_ordered",
                            starts |-> {start}, commits |-> << >>]
                      ELSE [@ EXCEPT !.starts = @ \cup {start}]]
  IN [S2 EXCEPT !.thr[t] =
        Push([NextPc(@) EXCEPT !.wsn = k, !.prag = "", !.last = 0],
             Frame("ws", s.body, 0, s, DOMAIN th.loc))]

\* "#pragma omp parallel" and its block: the team starts, every thread runs
\* the block with its own private variables
ExecFork(S, t, s) ==
  LET outer == NextPc(S.thr[t]).stack
  IN [S EXCEPT !.thr = [u \in Threads |->
        IF u \in Team
        THEN [stack |-> (IF u = t THEN outer ELSE << >>)
                         \o << Frame("par", s.body, 1, NoNode, {}) >>,
              loc |-> << >>, prag |-> "", par |-> TRUE, wsn |-> 0,
              iter |-> 0, last |-> 0, st |-> "run"]
        ELSE S.thr[u]],
      !.ws = NoWs]

\* the cells the recurrence of a quadratic table reads at (i, j): the
\* intervals strictly inside [i, j] (inside mode), the intervals of the
\* input strictly around it (outside mode)
ReadCells(name, args) ==
  IF Len(args) # 2 THEN {}
  ELSE IF ast.outside_generation
  THEN {<< name, << i, j >> >> : i \in 0..args[1], j \in args[2]..build.len[1]}
       \ {<< name, args >>}
  ELSE {<< name, << q[1], q[2] >> >> :
          q \in {r \in (args[1]..args[2]) \X (args[1]..args[2]) : r[1] <= r[2]}}
       \ {<< name, args >>}

\* the evaluation routine of an NT fills the cell; n counts the evaluations
\* of the cell, miss holds the cells it read before they were filled, by
\* the loop nests it was called from, at the values the variables of those
\* loops had
nt_tabulate(table, name, args, loops, vals) ==
  LET key == << name, args >>
      old == IF key \in DOMAIN table THEN table[key]
             ELSE [n |-> 0, miss |-> {}, by |-> {}, at |-> {}]
  IN Ext(table, key,
         [n |-> old.n + 1,
          miss |-> old.miss \cup (ReadCells(name, args) \ DOMAIN table),
          by |-> old.by \cup {loops},
          at |-> old.at \cup {vals}])

ExecCall(S, t, s) ==
  LET th == S.thr[t]
      S1 == [S EXCEPT !.thr[t] = NextPc(@)]
      vals == [i \in 1..Len(s.args) |-> Eval(s.args[i], th.loc, S.glob)]
      loops == LoopsOf(th.stack, 1)
      idx == [i \in 1..Len(loops) |-> Lookup(th.loc, S.glob, loops[i])]
  IN CASE s.name = "lock_shared" ->
            [S1 EXCEPT !.mutex.shared[t] = @ + 1]
       [] s.name = "unlock_shared" ->
            [S1 EXCEPT !.mutex.shared[t] = @ - 1]
       [] OTHER ->
            [S1 EXCEPT
               !.tab = nt_tabulate(@, s.name, vals, loops, idx),
               !.log = IF th.par /\ build.nthreads > 1 THEN @
                       ELSE Append(@, [nt |-> s.name, args |-> vals,
                                       loops |-> loops, idx |-> idx])]

ExecStmt(S, t) ==
  LET th == S.thr[t]
      raw == TopF(th).body[TopF(th).pc]
      s == CurStmt(th)
  IN CASE IsComment(raw) -> [S EXCEPT !.thr[t] = NextPc(@)]
       [] IsPragma(raw) ->
            [S EXCEPT !.thr[t] = [NextPc(@) EXCEPT !.prag = PragmaOf(raw)]]
       [] IsLockGuard(raw) ->
            [S EXCEPT !.mutex.excl = t,
                      !.thr[t] = NextPc(SetTop(@, [TopF(@) EXCEPT !.guard = TRUE]))]
       [] s.k \in {"decl", "assign"} -> ExecAssign(S, t, s)
       [] s.k = "for" ->
            IF th.prag = "" THEN ExecFor(S, t, s) ELSE ExecWsEnter(S, t, s)
       [] s.k = "block" ->
            IF th.prag = "parallel" THEN ExecFork(S, t, s)
            ELSE [S EXCEPT !.thr[t] =
                    Push([NextPc(@) EXCEPT !.prag = ""],
                         Frame(IF th.prag = "ordered" THEN "ordered" ELSE "seq",
                               s.body, 1, NoNode, DOMAIN th.loc))]
       [] s.k = "call" -> ExecCall(S, t, s)
       [] s.k = "assert" ->
            IF Lookup(th.loc, S.glob, s.var) # 0
            THEN [S EXCEPT !.thr[t] = NextPc(@)]
            ELSE [S EXCEPT !.status = "aborted"]
       [] OTHER -> [S EXCEPT !.thr[t] = NextPc(@)]

\* the closing brace of the parallel block: the implicit barrier; the last
\* thread to arrive ends the region and the master goes on alone
ExecJoin(S, t) ==
  IF \A u \in Team \ {t} : S.thr[u].st = "joined"
  THEN [S EXCEPT !.thr = [u \in Threads |->
          IF u = Master
          THEN [Pop(S.thr[u]) EXCEPT !.loc = << >>, !.par = FALSE,
                                     !.st = "run", !.iter = 0, !.last = 0]
          ELSE IdleThread],
        !.ws = NoWs]
  ELSE [S EXCEPT !.thr[t].st = "joined"]

ExecEnd(S, t) ==
  LET th == S.thr[t]
      f == TopF(th)
  IN IF f.guard
     THEN [S EXCEPT !.mutex.excl = 0,
                    !.thr[t] = SetTop(@, [f EXCEPT !.guard = FALSE])]
     ELSE CASE f.kind = "for" ->
                 LET val == Lookup(th.loc, S.glob, f.node.var)
                            + Eval(f.node.inc, th.loc, S.glob)
                     S1 == IF f.node.var \in DOMAIN th.loc
                           THEN [S EXCEPT !.thr[t].loc =
                                   Ext(Restrict(@, f.dom), f.node.var, val)]
                           ELSE [S EXCEPT !.glob = Ext(@, f.node.var, val)]
                 IN [S1 EXCEPT !.thr[t] = SetTop(@, [f EXCEPT !.pc = 0])]
            [] f.kind = "ws" ->
                 [S EXCEPT !.thr[t] = [SetTop(@, [f EXCEPT !.pc = 0]) EXCEPT
                                         !.loc = Restrict(@, f.dom),
                                         !.iter = 0]]
            [] f.kind = "ordered" ->
                 [S EXCEPT !.ws.ordNext = @ + 1, !.thr[t] = Leave(@)]
            [] f.kind = "par" -> ExecJoin(S, t)
            [] f.kind = "fn" ->
                 [S EXCEPT !.status = "done", !.thr[t] = Pop(@)]
            [] OTHER -> [S EXCEPT !.thr[t] = Leave(@)]

ExecTest(S, t) ==
  LET th == S.thr[t]
      f == TopF(th)
  IN IF Eval(f.node.cond, th.loc, S.glob) # 0
     THEN [S EXCEPT !.thr[t] = SetTop(@, [f EXCEPT !.pc = 1])]
     ELSE [S EXCEPT !.thr[t] = Leave(@)]

\* iterations of the current work share not yet handed out
Avail(S) == (1..Len(S.ws.iters)) \ S.ws.taken

\* thread u can still be handed iteration d of the current work share
CanStillTake(S, u, d) ==
  /\ u \notin S.ws.arrived
  /\ (IF S.thr[u].wsn = S.ws.id THEN S.thr[u].last ELSE 0) < d

\* what a thread may be handed: schedule(dynamic) hands out the iterations
\* in order; without a schedule clause any split of the iterations among
\* the team is allowed in which each thread runs its share in loop order
Eligible(S, t) ==
  IF S.ws.dyn
  THEN {c \in Avail(S) : \A d \in Avail(S) : c <= d}
  ELSE {c \in Avail(S) :
          /\ c > S.thr[t].last
          /\ \A d \in Avail(S) :
               d < c => \E u \in Team \ {t} : CanStillTake(S, u, d)}

Choices(S, t) ==
  IF Pos(S.thr[t]) = "grab" /\ Eligible(S, t) # {} THEN Eligible(S, t)
  ELSE {0}

\* take iteration c, or wait at the barrier that ends the loop; the last
\* thread to arrive releases the team
ExecGrab(S, t, c) ==
  LET th == S.thr[t]
      f == TopF(th)
  IN IF c # 0
     THEN [S EXCEPT !.ws.taken = @ \cup {c},
                    !.thr[t] = [SetTop(th, [f EXCEPT !.pc = 1]) EXCEPT
                                  !.iter = c, !.last = c,
                                  !.loc = Ext(@, f.node.var, S.ws.iters[c])]]
     ELSE IF S.ws.arrived \cup {t} = Team
     THEN [S EXCEPT !.ws.arrived = @ \cup {t},
                    !.thr = [u \in Threads |->
                               IF u \in Team THEN [Leave(S.thr[u]) EXCEPT !.last = 0]
                               ELSE S.thr[u]]]
     ELSE [S EXCEPT !.ws.arrived = @ \cup {t},
                    !.thr[t] = SetTop(th, [f EXCEPT !.pc = -1])]

Exec(S, t, c) ==
  LET th == S.thr[t]
  IN IF Illformed(th) THEN [S EXCEPT !.status = "illformed"]
     ELSE CASE Pos(th) = "stmt" -> ExecStmt(S, t)
            [] Pos(th) = "end" -> ExecEnd(S, t)
            [] Pos(th) = "test" -> ExecTest(S, t)
            [] Pos(th) = "grab" -> ExecGrab(S, t, c)

\* steps that touch nothing but the thread's own stack and private
\* variables; a thread runs them together with the step before
Invisible(S, t) ==
  LET th == S.thr[t]
      f == TopF(th)
  IN /\ ~Illformed(th)
     /\ CASE Pos(th) = "test" -> TRUE
          [] Pos(th) = "end" ->
               /\ ~f.guard
               /\ \/ f.kind \in {"seq", "ws"}
                  \/ f.kind = "for" /\ f.node.var \in DOMAIN th.loc
          [] Pos(th) = "stmt" ->
               LET raw == f.body[f.pc]
                   s == CurStmt(th)
               IN \/ IsComment(raw) \/ IsPragma(raw)
                  \/ /\ s.k \in {"decl", "assign"}
                     /\ IsPrivateTarget(th, s) /\ PostIncs(s.rhs) = {}
                  \/ /\ s.k = "for" /\ th.prag = ""
                     /\ IsPrivateTarget(th, s) /\ PostIncs(s.init) = {}
                  \/ s.k = "block" /\ th.prag = ""
                  \/ s.k = "assert" /\ Lookup(th.loc, S.glob, s.var) # 0
          [] OTHER -> FALSE

Runnable(S, t) ==
  S.status = "run" /\ S.thr[t].st = "run" /\ Pos(S.thr[t]) \notin {"none", "barrier"}

\* lock_shared waits for an exclusive holder and (the mutex prefers
\* writers) for a waiting exclusive request, the lock_guard for every
\* holder, an ordered block for the ordered blocks of the iterations before
Blocked(S, t) ==
  LET th == S.thr[t]
  IN /\ ~Illformed(th)
     /\ Pos(th) = "stmt"
     /\ LET raw == TopF(th).body[TopF(th).pc]
        IN \/ /\ raw.k = "call" /\ raw.name = "lock_shared"
              /\ (S.mutex.excl # 0 \/ S.mutex.pend)
           \/ /\ IsLockGuard(raw)
              /\ \/ S.mutex.excl # 0 \/ S.mutex.pend
                 \/ \E u \in Threads : S.mutex.shared[u] > 0
           \/ raw.k = "block" /\ th.prag = "ordered" /\ S.ws.ordNext # th.iter

RECURSIVE Norm(_, _)
Norm(S, t) ==
  IF Runnable(S, t) /\ Invisible(S, t) THEN Norm(Exec(S, t, 0), t) ELSE S

RECURSIVE NormFrom(_, _)
NormFrom(S, t) == IF t > MaxThreads THEN S ELSE NormFrom(Norm(S, t), t + 1)

NormAll(S) == NormFrom(S, 1)

(***************************************************************************)
(* Inputs                                                                  *)
(***************************************************************************)
Table(dl, dr) == [delete_left_index |-> dl, delete_right_index |-> dr]

NT(name, tabulated, code, tables) ==
  [name |-> name, is_tabulated |-> tabulated, has_code |-> code,
   tables |-> tables]

\* single-track nonterminals: quadratic, right- and left-linear tables
NtFull == NT("nt_tabulate_A", TRUE, TRUE, << Table(FALSE, FALSE) >>)
NtRight == NT("nt_tabulate_B", TRUE, TRUE, << Table(TRUE, FALSE) >>)
NtLeft == NT("nt_tabulate_C", TRUE, TRUE, << Table(FALSE, TRUE) >>)
NtPlain == NT("nt_tabulate_B", FALSE, TRUE, << Table(FALSE, FALSE) >>)
\* a constant table: both indices eliminated
NtConst == NT("nt_tabulate_D", TRUE, TRUE, << Table(TRUE, TRUE) >>)

Ast(cyk, checkpoint, outside, tracks, nts) ==
  [cyk |-> cyk, checkpoint |-> checkpoint, outside_generation |-> outside,
   tracks |-> tracks, topological_ord |-> nts]

\* unit: what is generated and run ("cyk": the function print_CYK returns,
\* "single": the single-thread traversal with its calls); openmp: _OPENMP is
\* defined; tile: the value of TILE_SIZE, 0 when it is not defined; len: the
\* length of the input sequence of each track; load: load_checkpoint of the
\* first run; ub: what the build does when an iterator steps over end()
Build(unit, openmp, tile, nthreads, len, load, ub) ==
  [unit |-> unit, openmp |-> openmp, tile |-> tile, nthreads |-> nthreads,
   len |-> len, load |-> load, ub |-> ub]

UbOutcomes == {"wrap", "stop", "crash"}

CheckpointVars ==
  {LeftName(k) : k \in 0..(ast.tracks - 1)}
  \cup {RightName(k) : k \in 0..(ast.tracks - 1)}
  \cup {VARNAME_OuterLoop1, VARNAME_OuterLoop2, VARNAME_InnerLoop2}

\* the variables that exist before cyk() runs: the input sequences, the
\* TILE_SIZE macro, load_checkpoint and the checkpointed indices (restored
\* holds their values, 0 in a fresh run)
InitGlob(load, restored) ==
  [v \in {SeqName(k) : k \in 0..(ast.tracks - 1)}
         \cup (IF build.tile > 0 THEN {"TILE_SIZE"} ELSE {})
         \cup {"load_checkpoint"}
         \cup (IF ast.checkpoint THEN CheckpointVars ELSE {}) |->
     CASE v = "TILE_SIZE" -> build.tile
       [] v = "load_checkpoint" -> B2I(load)
       [] v \in {"t_0_seq"} -> build.len[1]
       [] v \in {"t_1_seq"} -> build.len[2]
       [] v \in {"t_2_seq"} -> build.len[3]
       [] OTHER -> restored[v]]

Zeroes == [v \in CheckpointVars |-> 0]

\* the state in which the function f is entered
StartStateOf(f, load, restored) ==
  [glob |-> InitGlob(load, restored),
   thr |-> [t \in Threads |->
              IF t = Master
              THEN [IdleThread EXCEPT
                      !.stack = << Frame("fn",
                                     Preprocess(f.stmts, 1, << >>, build),
                                     1, NoNode, {}) >>,
                      !.st = "run"]
              ELSE IdleThread],
   mutex |-> FreeMutex, ws |-> NoWs, log |-> << >>, tab |-> << >>,
   acts |-> << >>, status |-> "run"]

StartState(load, restored) == StartStateOf(fn, load, restored)

Cur == [glob |-> glob, thr |-> thr, mutex |-> mutex, ws |-> ws, log |-> log,
        tab |-> tab, acts |-> acts, status |-> status]

Install(S) ==
  /\ glob' = S.glob /\ thr' = S.thr /\ mutex' = S.mutex /\ ws' = S.ws
  /\ log' = S.log /\ tab' = S.tab /\ acts' = S.acts /\ status' = S.status

(***************************************************************************)
(* Actions                                                                 *)
(***************************************************************************)
InitWith(Asts, Builds) ==
  /\ ast \in Asts
  /\ build \in Builds
  /\ fn = [name |-> "", stmts |-> << >>, abort |-> FALSE]
  /\ status = "gen"
  /\ glob = << >>
  /\ thr = [t \in Threads |-> IdleThread]
  /\ mutex = FreeMutex
  /\ ws = NoWs
  /\ log = << >>
  /\ tab = << >>
  /\ acts = << >>
  /\ saved = {}
  /\ restarts = 0

\* what the generator emits for the grammar a
Emit(a) ==
  IF build.unit = "cyk" THEN print_CYK(a, build.ub)
  ELSE traversal_with_calls(a,
         IF a.outside_generation THEN "SINGLETHREAD_OUTSIDE"
         ELSE "SINGLETHREAD", build.ub)

\* the generator runs
Generate ==
  /\ status = "gen"
  /\ fn' = Emit(ast)
  /\ status' = IF fn'.abort THEN "aborted" ELSE "ready"
  /\ UNCHANGED << ast, build, glob, thr, mutex, ws, log, tab, acts, saved,
                  restarts >>

\* the generated function is compiled and called
Start ==
  /\ status = "ready"
  /\ Install(NormAll(StartState(build.load, Zeroes)))
  /\ UNCHANGED << ast, build, fn, saved, restarts >>

\* a step of the thread that runs cyk(), outside the parallel block
MasterStep ==
  /\ ~thr[Master].par
  /\ Runnable(Cur, Master) /\ ~Blocked(Cur, Master)
  /\ Install(NormAll(Exec(Cur, Master, 0)))
  /\ UNCHANGED << ast, build, fn, saved, restarts >>

\* a step of a thread of the team inside the parallel block
WorkerStep(t) ==
  /\ thr[t].par
  /\ Runnable(Cur, t) /\ ~Blocked(Cur, t)
  /\ \E c \in Choices(Cur, t) : Install(NormAll(Exec(Cur, t, c)))
  /\ UNCHANGED << ast, build, fn, saved, restarts >>

\* the checkpoint thread takes the mutex exclusively and saves the indices
\* and the tables; the process ends and a later run, started with
\* load_checkpoint, restores both from the snapshot
SnapshotAndResume ==
  /\ status = "run" /\ ast.checkpoint /\ restarts < MaxRestarts
  /\ mutex = FreeMutex
  /\ saved' = DOMAIN tab
  /\ restarts' = restarts + 1
  /\ Install(NormAll([StartState(TRUE, [v \in CheckpointVars |-> glob[v]])
                        EXCEPT !.tab = tab]))
  /\ UNCHANGED << ast, build, fn >>

\* the checkpoint thread asks for the mutex in exclusive mode
CheckpointRequest ==
  /\ status = "run" /\ ast.checkpoint
  /\ ~mutex.pend /\ mutex.excl # Checkpointer
  /\ mutex' = [mutex EXCEPT !.pend = TRUE]
  /\ UNCHANGED << ast, build, fn, status, glob, thr, ws, log, tab, acts,
                  saved, restarts >>

\* ... gets it when nobody holds it
CheckpointAcquire ==
  /\ status = "run" /\ mutex.pend /\ mutex.excl = 0
  /\ \A t \in Threads : mutex.shared[t] = 0
  /\ mutex' = [mutex EXCEPT !.pend = FALSE, !.excl = Checkpointer]
  /\ UNCHANGED << ast, build, fn, status, glob, thr, ws, log, tab, acts,
                  saved, restarts >>

\* ... and releases it when the checkpoint is written
CheckpointRelease ==
  /\ mutex.excl = Checkpointer
  /\ mutex' = [mutex EXCEPT !.excl = 0]
  /\ UNCHANGED << ast, build, fn, status, glob, thr, ws, log, tab, acts,
                  saved, restarts >>

(***************************************************************************)
(* Specifications                                                          *)
(***************************************************************************)
\* the steps of a generated program: generation, the call of cyk(), and
\* the steps of its threads
NextRun == Generate \/ Start \/ MasterStep \/ \E t \in Threads : WorkerStep(t)

\* builds of the single-thread inside traversal with its calls
SingleBuilds(load) ==
  {Build("single", FALSE, 0, 1, << n >>, load, "wrap") : n \in 0..MaxN}

\* builds of the function print_CYK returns, compiled with _OPENMP and
\* without TILE_SIZE: the default tile is larger than the input, the tile
\* loops are empty and the serial closure, which then starts at column 0,
\* is the whole inside traversal
ClosureBuilds(load) ==
  {Build("cyk", TRUE, 0, 1, << n >>, load, "wrap") : n \in 0..MaxN}

\* builds of the function print_CYK returns, compiled with _OPENMP
TeamBuilds(load) ==
  {Build("cyk", TRUE, ts, nt, << n >>, load, "wrap") :
     ts \in 0..MaxTile, nt \in 1..MaxThreads, n \in 0..MaxN}

\* the inside traversal of one track, run by one thread
SeqAsts == {Ast(TRUE, cp, FALSE, 1, << NtFull >>) : cp \in BOOLEAN}
SeqBuilds == SingleBuilds(FALSE) \cup ClosureBuilds(FALSE)
InitSeq == InitWith(SeqAsts, SeqBuilds)
SpecSeq == InitSeq /\ [][NextRun]_vars

\* the tiled schedule without checkpoint support, run by a team
TiledAsts == {Ast(TRUE, FALSE, FALSE, 1, << NtFull >>)}
TiledBuilds == TeamBuilds(FALSE)
InitTiled == InitWith(TiledAsts, TiledBuilds)
SpecTiled == InitTiled /\ [][NextRun]_vars

\* checkpoint support: fresh runs (one thread and teams) and runs that load
\* a snapshot in which every index is 0 (one thread)
CheckpointAsts == {Ast(TRUE, TRUE, FALSE, 1, << NtFull >>)}
NoopBuilds ==
  SingleBuilds(FALSE) \cup TeamBuilds(FALSE) \cup SingleBuilds(TRUE)
  \cup {b \in TeamBuilds(TRUE) : b.nthreads = 1}
InitNoop == InitWith(CheckpointAsts, NoopBuilds)
SpecNoop == InitNoop /\ [][NextRun]_vars

\* checkpoint support, a run that is snapshotted and resumed
ResumeBuilds == SingleBuilds(FALSE) \cup TeamBuilds(FALSE)
InitResume == InitWith(CheckpointAsts, ResumeBuilds)
NextResume == NextRun \/ SnapshotAndResume
SpecResume == InitResume /\ [][NextResume]_vars

\* the generator alone, over grammars with and without tabulated
\* nonterminals, every traversal mode, every outcome of the build's
\* undefined behaviour
NtLists ==
  {<< >>, << NtPlain >>, << NtFull >>, << NtRight >>, << NtLeft >>,
   << NtFull, NtRight >>, << NtFull, NtLeft >>, << NtRight, NtLeft >>}
GenAsts ==
  {Ast(cyk, cp, out, 1, nts) :
     cyk \in BOOLEAN, cp \in BOOLEAN, out \in BOOLEAN, nts \in NtLists}
GenBuilds ==
  {Build(unit, unit = "cyk", 0, 1, << 0 >>, FALSE, ub) :
     unit \in {"single", "cyk"}, ub \in UbOutcomes}
InitGen == InitWith(GenAsts, GenBuilds)
NextGen == Generate
SpecGen == InitGen /\ [][NextGen]_vars

\* grammars of 1..MaxTracks tracks: a nonterminal has one table per track
NtOnTracks(name, tabulated, code, k, tbl) ==
  NT(name, tabulated, code, [t \in 1..k |-> tbl])

\* quadratic in every track but right-linear in the last one
NtLastRight(k) ==
  NT("nt_tabulate_C", TRUE, TRUE,
     [t \in 1..k |-> IF t = k THEN Table(TRUE, FALSE) ELSE Table(FALSE, FALSE)])

TrackNtLists(k) ==
  LET full == NtOnTracks("nt_tabulate_A", TRUE, TRUE, k, Table(FALSE, FALSE))
      nocode == NtOnTracks("nt_tabulate_B", TRUE, FALSE, k, Table(FALSE, FALSE))
      plain == NtOnTracks("nt_tabulate_B", FALSE, FALSE, k, Table(FALSE, FALSE))
  IN (IF k = 1 THEN NtLists ELSE {})
     \cup {<< >>, << full >>, << nocode >>, << full, nocode >>,
           << plain, full >>, << NtLastRight(k), plain, full >>}

\* the generator alone over grammars of one and more tracks, with
\* nonterminals that lack an evaluation routine
TrackAsts ==
  UNION {{Ast(cyk, cp, out, k, nts) :
            cyk \in BOOLEAN, cp \in BOOLEAN, out \in BOOLEAN,
            nts \in TrackNtLists(k)} : k \in 1..MaxTracks}
InitGenTracks == InitWith(TrackAsts, GenBuilds)
SpecGenTracks == InitGenTracks /\ [][NextGen]_vars

\* the steps of a generated program that one thread runs
NextSolo == Generate \/ Start \/ MasterStep

\* the outside traversal of one track with its calls, run by one thread
OutsideAsts == {Ast(TRUE, cp, TRUE, 1, << NtFull >>) : cp \in BOOLEAN}
InitOutside == InitWith(OutsideAsts, SingleBuilds(FALSE))
SpecOutside == InitOutside /\ [][NextSolo]_vars

\* the tiled schedule for grammars with a quadratic table and a table with
\* eliminated indices, run by a team
ElimAsts ==
  {Ast(TRUE, FALSE, FALSE, 1, << NtFull, nt >>) :
     nt \in {NtRight, NtLeft, NtConst}}
InitElim == InitWith(ElimAsts, TeamBuilds(FALSE))
SpecElim == InitElim /\ [][NextRun]_vars

\* the inside traversal of two tracks with the calls of a nonterminal that
\* has both indices live in both tracks, run by one thread
NtFull2 == NtOnTracks("nt_tabulate_A", TRUE, TRUE, 2, Table(FALSE, FALSE))
TwoTrackAsts == {Ast(TRUE, cp, FALSE, 2, << NtFull2 >>) : cp \in BOOLEAN}
TwoTrackBuilds ==
  {Build("single", FALSE, 0, 1, << n0, n1 >>, FALSE, "wrap") :
     n0 \in 0..MaxTrackN, n1 \in 0..MaxTrackN}
InitTracks == InitWith(TwoTrackAsts, TwoTrackBuilds)
SpecTracks == InitTracks /\ [][NextSolo]_vars

\* checkpoint support on short inputs, interrupted and resumed
FlagBuilds == {b \in ResumeBuilds : b.len[1] <= MaxFlagN}
InitFlags == InitWith(CheckpointAsts, FlagBuilds)
SpecFlags == InitFlags /\ [][NextResume]_vars

\* checkpoint support with the checkpoint thread at work: it takes the
\* mutex exclusively again and again while cyk() runs
CkptBuilds ==
  {b \in SingleBuilds(FALSE) \cup TeamBuilds(FALSE) : b.len[1] <= MaxFlagN}
InitCkpt == InitWith(CheckpointAsts, CkptBuilds)
NextCkpt ==
  NextRun \/ CheckpointRequest \/ CheckpointAcquire \/ CheckpointRelease
SpecCkpt == InitCkpt /\ [][NextCkpt]_vars

\* checkpoint support on a build whose int has FlagBits bits, one thread
WrapBuilds ==
  {Ext(b, "intmax", 2 ^ (FlagBits - 1) - 1) :
     b \in SingleBuilds(FALSE) \cup SingleBuilds(TRUE)}
InitWrap == InitWith(CheckpointAsts, WrapBuilds)
SpecWrap == InitWrap /\ [][NextSolo]_vars

(***************************************************************************)
(* Properties                                                              *)
(***************************************************************************)
N == build.len[1]

\* the cells of the triangular table of one track
Triangle(n) == {c \in (0..n) \X (0..n) : c[1] <= c[2]}

Occurrences(c) == {k \in 1..Len(log) : log[k].args = c}

\* C1: for one track of any length n and a nonterminal with both indices
\* live, the single-thread inside traversal (quadrants A, B, C, D with the
\* calls nt(row - 1, column)) evaluates no pair outside 0 <= i <= j <= n, no
\* cell twice, and when it returns it has evaluated every cell exactly once
ExactlyOnceCoverage ==
  /\ \A k \in 1..Len(log) :
       /\ log[k].args \in Triangle(N)
       /\ Occurrences(log[k].args) = {k}
  /\ status = "done" => \A c \in Triangle(N) : Cardinality(Occurrences(c)) = 1

CoverageWitness ==
  status = "done" /\ N = MaxN /\ Len(log) = Cardinality(Triangle(MaxN))

\* C2: in the order of the single-thread inside traversal, when cell (i, j)
\* is evaluated every other cell (i', j') with i <= i' <= j' <= j has been
\* evaluated before
InsideDependencyOrder ==
  \A k \in 1..Len(log) :
    \A c \in Triangle(N) :
      (log[k].args[1] <= c[1] /\ c[2] <= log[k].args[2] /\ c # log[k].args)
        => \E m \in 1..(k - 1) : log[m].args = c

DependencyOrderWitness ==
  /\ Len(log) >= 6
  /\ \E k \in 1..Len(log) : log[k].args = << 0, 2 >>

PhaseA == << "z", "t_0_j", "t_0_i" >>
PhaseB == << "z", "y", "t_0_j", "t_0_i" >>
SerialClosure == {<< "t_0_j", "t_0_i" >>, << "t_0_j" >>, << "t_0_i" >>, << >>}

CellsBy(phases) ==
  {key[2] : key \in {q \in DOMAIN tab : tab[q].by \cap phases # {}}}

\* C3: for one track, any n and any tile size >= 1, the cells evaluated by
\* phase A, by phase B and by the serial closure are pairwise disjoint, no
\* cell is evaluated twice, and when cyk() returns their union is the cell
\* set of the untiled traversal, {(i, j) : 0 <= i <= j <= n}
TilingDecomposition ==
  /\ \A key \in DOMAIN tab :
       /\ tab[key].n = 1
       /\ key[2] \in Triangle(N)
       /\ tab[key].by \subseteq {PhaseA, PhaseB} \cup SerialClosure
  /\ CellsBy({PhaseA}) \cap CellsBy({PhaseB}) = {}
  /\ CellsBy({PhaseA}) \cap CellsBy(SerialClosure) = {}
  /\ CellsBy({PhaseB}) \cap CellsBy(SerialClosure) = {}
  /\ status = "done" =>
       CellsBy({PhaseA}) \cup CellsBy({PhaseB}) \cup CellsBy(SerialClosure)
         = Triangle(N)

TilingWitness ==
  /\ status = "done"
  /\ CellsBy({PhaseA}) # {} /\ CellsBy({PhaseB}) # {}
  /\ CellsBy(SerialClosure) # {}
  /\ build.tile > 1 /\ N % build.tile # 0

\* C4: in every interleaving of the team that the fork-join structure
\* allows, no cell is evaluated before every cell of a strict sub-interval
\* has been evaluated (no evaluation reads an empty cell)
TiledDependencyOrder == \A key \in DOMAIN tab : tab[key].miss = {}

\* two threads are inside tiles of the same phase-B round
TiledOrderWitness ==
  /\ build.nthreads > 1
  /\ \E t \in Threads, u \in Threads :
       /\ t # u
       /\ thr[t].par /\ thr[u].par
       /\ "y" \in DOMAIN thr[t].loc /\ "y" \in DOMAIN thr[u].loc
       /\ thr[t].iter # 0 /\ thr[u].iter # 0
       /\ CellsBy({PhaseB}) # {}

\* the cells some evaluation has filled
Filled == {key[2] : key \in DOMAIN tab}

\* C5: with checkpoint support, for the inside traversal of one track: when
\* a run that was resumed from a snapshot of the indices, taken at any
\* moment at which the mutex was free, returns, every cell is evaluated
\* (before the snapshot or after it) and no evaluation has read a cell that
\* was not evaluated yet
ResumeCompleteness ==
  (build.tile = 0 /\ restarts > 0) =>
     /\ \A key \in DOMAIN tab : tab[key].miss = {}
     /\ status = "done" => Triangle(N) \subseteq Filled

\* a resumed run of the inside traversal has returned
ResumedRunWitness ==
  /\ build.tile = 0 /\ restarts > 0 /\ status = "done"
  /\ saved # {} /\ Filled # {c[2] : c \in saved}

\* the run of the program f from its start to its end under the schedule
\* that always lets the lowest thread go on and hands out the lowest
\* iteration
RECURSIVE RunAlone(_)
RunAlone(S) ==
  LET ready == {t \in Threads : Runnable(S, t) /\ ~Blocked(S, t)}
  IN IF S.status # "run" \/ ready = {} THEN S
     ELSE LET t == CHOOSE u \in ready : \A v \in ready : u <= v
              c == CHOOSE d \in Choices(S, t) : \A e \in Choices(S, t) : d <= e
          IN RunAlone(NormAll(Exec(S, t, c)))

\* the run of what the generator emits for the same grammar without
\* checkpoint support, in the same build
ReferenceRun ==
  RunAlone(NormAll(StartStateOf(Emit([ast EXCEPT !.checkpoint = FALSE]),
                                FALSE, Zeroes)))

\* per cell: how often it was evaluated and from which loop nests
Evaluations(table) ==
  [key \in DOMAIN table |-> [n |-> table[key].n, by |-> table[key].by]]

\* C6: when every *_loaded flag starts as "already loaded" (load_checkpoint
\* false, or every restored index 0), every loop with a checkpointed start
\* takes its natural start on every activation, and when cyk() returns it
\* has evaluated the cells the program generated without checkpoint support
\* evaluates, each as often and in the same loop nest, and, where one thread
\* fixes the order, in the same sequence
CheckpointNoOp ==
  /\ \A k \in 1..Len(acts) : ~acts[k].restored
  /\ status = "done" =>
       /\ ReferenceRun.status = "done"
       /\ Evaluations(tab) = Evaluations(ReferenceRun.tab)
       /\ log = ReferenceRun.log

\* a team has gone through the tile loops and the serial closure of the
\* program with checkpoint support
CheckpointNoOpWitness ==
  /\ status = "done" /\ build.nthreads > 1
  /\ CellsBy({PhaseB}) # {} /\ CellsBy(SerialClosure) # {}
  /\ \E k \in 1..Len(acts) : acts[k].var = "y"

\* C7: in a run with checkpoint support, a loop start takes the restored
\* value at most once per loop variable, in the first activation of a loop
\* over that variable; every later activation takes the natural start
RestoredConsumedOnce ==
  \A k \in 1..Len(acts) :
    acts[k].restored =>
      \A m \in 1..(k - 1) : acts[m].var # acts[k].var

\* a resumed run has activated the y loop twice
SecondActivationWitness ==
  /\ restarts > 0
  /\ Cardinality({k \in 1..Len(acts) : acts[k].var = "y"}) >= 2
  /\ \E k \in 1..Len(acts) : acts[k].var = "y" /\ acts[k].restored

\* the NT calls of a statement list, each with the variables of the loops
\* around it, outermost first
RECURSIVE CallsIn(_, _)
CallsIn(stmts, loops) ==
  UNION {LET s == stmts[i]
         IN CASE s.k = "call" /\ IsNtCallName(s.name) ->
                   {[name |-> s.name, loops |-> loops]}
              [] s.k = "for" -> CallsIn(s.body, Append(loops, s.var))
              [] s.k = "block" -> CallsIn(s.body, loops)
              [] OTHER -> {}
         : i \in 1..Len(stmts)}

\* the number of Loop nodes of a statement list, at every level
RECURSIVE LoopNodes(_, _)
LoopNodes(stmts, i) ==
  IF i > Len(stmts) THEN 0
  ELSE (CASE stmts[i].k = "for" -> 1 + LoopNodes(stmts[i].body, 1)
          [] stmts[i].k = "block" -> LoopNodes(stmts[i].body, 1)
          [] OTHER -> 0)
       + LoopNodes(stmts, i + 1)

OrderedNTs == {ast.topological_ord[i] : i \in 1..Len(ast.topological_ord)}

\* the tabulated nonterminals with one eliminated and one live index
OneLiveNTs ==
  {nt \in OrderedNTs :
     /\ nt.is_tabulated
     /\ nt.tables[1].delete_left_index # nt.tables[1].delete_right_index}

LiveVar(nt) ==
  IF nt.tables[1].delete_left_index THEN RightName(0) ELSE LeftName(0)

Emitted == status = "ready" /\ ast.cyk

Variant(openmp) ==
  Preprocess(fn.stmts, 1, << >>, [openmp |-> openmp, tile |-> 0])

\* C9: whenever CYK generation is requested, each variant print_CYK emits
\* (the one compiled without _OPENMP and the one compiled with it) contains
\* a call of every tabulated nonterminal
PlacementInEveryMode ==
  (Emitted /\ build.unit = "cyk") =>
    \A openmp \in BOOLEAN :
      \A nt \in {x \in OrderedNTs : x.is_tabulated} :
        \E c \in CallsIn(Variant(openmp), << >>) : c.name = nt.name

\* C10: generation with no tabulated nonterminal leaves no Loop node at any
\* level of the emitted tree, in every mode
EmptyListPruning ==
  (Emitted /\ \A nt \in OrderedNTs : ~nt.is_tabulated) =>
     LoopNodes(fn.stmts, 1) = 0

\* C11: for a grammar whose axiom has more than one track, the variant of
\* the emitted function that is compiled when _OPENMP is defined is the
\* single-thread traversal: it has the statements of the variant compiled
\* without _OPENMP and is not empty
MultiTrackFallback ==
  (Emitted /\ build.unit = "cyk" /\ ast.tracks > 1) =>
     /\ Variant(TRUE) = Variant(FALSE)
     /\ LoopNodes(Variant(TRUE), 1) > 0

\* C12: when the grammar does not request CYK evaluation, print_CYK returns
\* a function named cyk with no statement at all, whatever the checkpoint
\* and outside settings, the number of tracks and the nonterminals are
EmptyButPresent ==
  (build.unit = "cyk" /\ ~ast.cyk /\ status # "gen") =>
     /\ status = "ready"
     /\ fn.name = "cyk"
     /\ fn.stmts = << >>

\* the empty function was returned for a two-track outside grammar with
\* checkpoint support and a tabulated nonterminal without routine
EmptyFunctionWitness ==
  /\ status = "ready" /\ build.unit = "cyk" /\ ~ast.cyk
  /\ ast.checkpoint /\ ast.outside_generation /\ ast.tracks = 2
  /\ \E nt \in OrderedNTs : nt.is_tabulated /\ ~nt.has_code
  /\ fn.name = "cyk"

\* C17: whenever print_CYK runs with CYK requested on a grammar that
\* contains a tabulated nonterminal without evaluation routine, generation
\* aborts and no function is returned, for every track count
MissingRoutineFatal ==
  (/\ build.unit = "cyk" /\ ast.cyk /\ status # "gen"
   /\ \E nt \in OrderedNTs : nt.is_tabulated /\ ~nt.has_code)
    => status = "aborted"

\* generation aborted on the assertion for a one-track grammar
RoutineAssertWitness ==
  /\ status = "aborted" /\ build.unit = "cyk" /\ ast.tracks = 1
  /\ build.ub = "stop"
  /\ \E nt \in OrderedNTs : nt.is_tabulated /\ ~nt.has_code

\* the evaluations inside the nest of the row loop and the column loop
NestVisits == {k \in 1..Len(log) : log[k].loops = << LeftName(0), RightName(0) >>}

\* C13: in the outside traversal of one track, when the nest (row ascending,
\* column ascending from n - row) visits a cell (i, j) of the triangle,
\* every strictly larger interval (i', j') with i' <= i <= j <= j' <= n has
\* been visited before
OutsideDualOrder ==
  ast.outside_generation =>
    \A k \in NestVisits :
      LET c == log[k].idx
      IN c \in Triangle(N) =>
           \A d \in Triangle(N) :
             (d[1] <= c[1] /\ c[2] <= d[2] /\ d # c)
               => \E m \in NestVisits : m < k /\ log[m].idx = d

\* the outside traversal has run to its end on an input of length >= 2
OutsideRunWitness ==
  /\ ast.outside_generation /\ status = "done" /\ N >= 2
  /\ \E k \in NestVisits : log[k].idx = << 1, 1 >>

\* the run of the untiled single-thread traversal, with its calls, for the
\* same grammar and input
UntiledRun ==
  RunAlone(NormAll(StartStateOf(
    traversal_with_calls(ast, "SINGLETHREAD", build.ub), FALSE, Zeroes)))

\* per nonterminal and index tuple: the number of calls
CallCounts(table) == [key \in DOMAIN table |-> table[key].n]

\* C14: for a single-track grammar with a tabulated nonterminal that has one
\* or both indices eliminated, the tiled variant (phase A, phase B and the
\* serial closure with the calls add_nt_calls places) has, when cyk()
\* returns, called every nonterminal for the index tuples the untiled
\* single-thread traversal calls it for, each as often; a right-index-only
\* table is called for every column 0..n exactly once
TilingDecompositionEliminated ==
  (status = "done" /\ build.unit = "cyk" /\ build.openmp) =>
     /\ CallCounts(tab) = CallCounts(UntiledRun.tab)
     /\ NtRight \in OrderedNTs =>
          \A j \in 0..N :
            /\ << NtRight.name, << j >> >> \in DOMAIN tab
            /\ tab[<< NtRight.name, << j >> >>].n = 1

\* a tiled run with a right-index-only table has returned, with whole
\* tiles and a remainder
EliminatedTilingWitness ==
  /\ status = "done" /\ NtRight \in OrderedNTs
  /\ build.tile > 1 /\ N > build.tile /\ N % build.tile # 0
  /\ CellsBy({PhaseB}) # {}

\* the cells phase B has evaluated, and the tiles (z, y) they were
\* evaluated in
PhaseBKeys == {key \in DOMAIN tab : PhaseB \in tab[key].by}
TilesOf(key) == {<< v[1], v[2] >> : v \in {w \in tab[key].at : Len(w) = 4}}

\* the interval c contains the interval d
Contains(c, d) == c[1] <= d[1] /\ d[2] <= c[2]

\* C15 as stated: any two distinct tiles (z, y) and (z', y') of phase B are
\* independent: no cell of one is a super-interval of a cell of the other
TileIndependence ==
  \A k1 \in PhaseBKeys, k2 \in PhaseBKeys :
    \A t1 \in TilesOf(k1), t2 \in TilesOf(k2) :
      t1 # t2 => ~Contains(k1[2], k2[2])

\* the threads of the team that are inside a tile of phase B
InTile(t) == t \in Team /\ thr[t].par /\ "y" \in DOMAIN thr[t].loc

\* C15: two distinct tiles (z, y) and (z, y') of the same round z of phase B
\* are independent (no cell of one is a super-interval of a cell of the
\* other), and threads that are inside tiles at the same time are inside
\* distinct tiles of the same round; tiles of different rounds are not
\* claimed independent, the rounds run one after the other
RoundTileIndependence ==
  /\ \A k1 \in PhaseBKeys, k2 \in PhaseBKeys :
       \A t1 \in TilesOf(k1), t2 \in TilesOf(k2) :
         (t1 # t2 /\ t1[1] = t2[1]) => ~Contains(k1[2], k2[2])
  /\ \A t \in Threads, u \in Threads :
       (t # u /\ InTile(t) /\ InTile(u)) =>
          /\ thr[t].loc["z"] = thr[u].loc["z"]
          /\ thr[t].loc["y"] # thr[u].loc["y"]

\* two threads are inside tiles of a round after another round has left
\* cells that cells of this round contain
ConcurrentTilesWitness ==
  /\ \E t \in Threads, u \in Threads : t # u /\ InTile(t) /\ InTile(u)
  /\ \E k1 \in PhaseBKeys, k2 \in PhaseBKeys :
       /\ k1 # k2 /\ Contains(k1[2], k2[2])
       /\ \E t1 \in TilesOf(k1), t2 \in TilesOf(k2) : t1[1] # t2[1]

\* the loop nests of the quadrants A, B, C, D of one track
Quadrants(track) ==
  {<< RightName(track), LeftName(track) >>, << RightName(track) >>,
   << LeftName(track) >>, << >>}

\* the nests of a two-track traversal: a quadrant of track 0 around a
\* quadrant of track 1
QuadrantPairs == {a \o b : a \in Quadrants(0), b \in Quadrants(1)}

\* the index tuples (i0, j0, i1, j1) of two triangular tables
CellPairs ==
  {<< c[1], c[2], d[1], d[2] >> :
     c \in Triangle(build.len[1]), d \in Triangle(build.len[2])}

\* C16: for two tracks of lengths n0 and n1 every call sits in a quadrant of
\* track 0 with a quadrant of track 1 nested inside it (track 0 outermost),
\* every quadrant of track 0 holds all four quadrants of track 1, no
\* combination ((i0, j0), (i1, j1)) outside the two triangles is reached,
\* none twice, and when the traversal returns every combination has been
\* reached exactly once
MultiTrackComposition ==
  /\ \A k \in 1..Len(log) :
       /\ log[k].loops \in QuadrantPairs
       /\ log[k].args \in CellPairs
       /\ Occurrences(log[k].args) = {k}
  /\ status = "done" =>
       /\ \A c \in CellPairs : Cardinality(Occurrences(c)) = 1
       /\ (build.len[1] >= 2 /\ build.len[2] >= 2) =>
            {log[k].loops : k \in 1..Len(log)} = QuadrantPairs

\* the traversal of two tracks of the longest inputs has returned
TwoTrackWitness ==
  /\ status = "done" /\ ast.tracks = 2
  /\ build.len = << MaxTrackN, MaxTrackN >>
  /\ Len(log) = Cardinality(CellPairs)

\* the NT calls of a statement list in the order of the text, each with its
\* arguments and the variables of the loops around it
RECURSIVE CallSeq(_, _, _)
CallSeq(stmts, i, loops) ==
  IF i > Len(stmts) THEN << >>
  ELSE LET s == stmts[i]
       IN (CASE s.k = "call" /\ IsNtCallName(s.name) ->
                  << [name |-> s.name, args |-> s.args, loops |-> loops] >>
             [] s.k = "for" -> CallSeq(s.body, 1, Append(loops, s.var))
             [] s.k = "block" -> CallSeq(s.body, 1, loops)
             [] OTHER -> << >>)
          \o CallSeq(stmts, i + 1, loops)

\* the names of the non-eliminated indices of a nonterminal
LiveIndexNames(nt) ==
  {LeftName(t) : t \in {u \in 0..(Len(nt.tables) - 1) :
                          ~nt.tables[u + 1].delete_left_index}}
  \cup {RightName(t) : t \in {u \in 0..(Len(nt.tables) - 1) :
                                ~nt.tables[u + 1].delete_right_index}}

\* the arguments the placement rule asks for: per track the left index
\* minus 1 and the right index, eliminated indices omitted
RECURSIVE RuleArgs(_, _)
RuleArgs(nt, t) ==
  IF t >= Len(nt.tables) THEN << >>
  ELSE LET tbl == nt.tables[t + 1]
       IN (IF tbl.delete_left_index THEN << >>
           ELSE << Minus(Vacc(LeftName(t)), Const(1)) >>)
          \o (IF tbl.delete_right_index THEN << >>
              ELSE << Vacc(RightName(t)) >>)
          \o RuleArgs(nt, t + 1)

\* the calls the placement rule asks for at one level: stack is the stack
\* of bound loop-variable names, loops the loops around the level
RuleLevelCalls(stmts, loops, stack, mode) ==
  IF mode = "OPENMP_PARALLEL" /\ \E i \in 1..Len(stmts) : IsFor(stmts[i])
  THEN << >>
  ELSE LET Placed(nt) ==
             /\ nt.is_tabulated
             /\ Cardinality({i \in 1..Len(stack) :
                               stack[i] \in LiveIndexNames(nt)}) = Len(stack)
           sel == SelectSeq(ast.topological_ord, Placed)
       IN [i \in 1..Len(sel) |->
             [name |-> sel[i].name, args |-> RuleArgs(sel[i], 0),
              loops |-> loops]]

\* the calls the placement rule asks for in a traversal, in the order of
\* the text: those of the nested loops, then those of the level itself
RECURSIVE RuleCallsFrom(_, _, _, _, _)
RuleCallsFrom(stmts, i, loops, stack, mode) ==
  IF i > Len(stmts) THEN RuleLevelCalls(stmts, loops, stack, mode)
  ELSE (IF IsFor(stmts[i])
        THEN RuleCallsFrom(stmts[i].body, 1, Append(loops, stmts[i].var),
               IF mode = "OPENMP_PARALLEL" /\ stmts[i].var \notin IndexNames
               THEN stack ELSE Append(stack, stmts[i].var),
               mode)
        ELSE << >>)
       \o RuleCallsFrom(stmts, i + 1, loops, stack, mode)

RuleCalls(stmts, mode) == RuleCallsFrom(stmts, 1, << >>, << >>, mode)

SingleMode ==
  IF ast.outside_generation THEN "SINGLETHREAD_OUTSIDE" ELSE "SINGLETHREAD"

RECURSIVE DeadLoops(_, _)
DeadLoops(stmts, i) ==
  IF i > Len(stmts) THEN 0
  ELSE (CASE stmts[i].k = "for" ->
               (IF count_nt_calls_and_loops(stmts[i]) = 0 THEN 1 ELSE 0)
               + DeadLoops(stmts[i].body, 1)
          [] stmts[i].k = "block" -> DeadLoops(stmts[i].body, 1)
          [] OTHER -> 0)
       + DeadLoops(stmts, i + 1)

\* C19: after add_nt_calls has processed a traversal, no Loop node remains
\* at any level whose body holds neither a nonterminal call nor another
\* Loop, also where two prunable loops are adjacent siblings or a prunable
\* loop is the last statement of its list
NoDeadLoopRemains ==
  Emitted =>
    IF build.unit = "single" THEN DeadLoops(fn.stmts, 1) = 0
    ELSE DeadLoops(Variant(TRUE), 1) = 0

\* the single-thread traversal, where declarations separate the loops, has
\* been pruned to nothing
PrunedWitness ==
  /\ Emitted /\ build.unit = "single" /\ ast.topological_ord = << >>
  /\ LoopNodes(fn.stmts, 1) = 0

\* the checkpointed variables whose *_loaded flag the statement that cyk()
\* executed last has declared
JustDeclared ==
  IF status # "run" \/ Len(thr[Master].stack) # 1 THEN {}
  ELSE LET f == thr[Master].stack[1]
       IN IF f.pc < 2 \/ f.pc - 1 > Len(f.body) THEN {}
          ELSE LET s == CustomStmt(f.body[f.pc - 1])
               IN {v \in CheckpointVars :
                     s.k = "decl" /\ s.var = LoadedName(v)}

\* C20: for every checkpointed loop variable v (row and column index,
\* outer_loop_1_idx, outer_loop_2_idx, inner_loop_2_idx) the flag v_loaded
\* is declared with the value 0 ("not yet loaded") iff load_checkpoint is
\* true and the restored value of v is not 0, and with a value other than 0
\* in every other case
LoadedFlagInitialisation ==
  \A v \in JustDeclared :
    (glob[LoadedName(v)] = 0) <=> (glob["load_checkpoint"] # 0 /\ glob[v] # 0)

\* a resumed run has declared the flag of inner_loop_2_idx as not yet
\* loaded while the restored row index is 0
FlagDeclaredWitness ==
  /\ VARNAME_InnerLoop2 \in JustDeclared
  /\ glob[LoadedName(VARNAME_InnerLoop2)] = 0
  /\ glob["load_checkpoint"] = 1 /\ glob[VARNAME_InnerLoop2] > 0
  /\ glob[LeftName(0)] = 0 /\ glob[LoadedName(LeftName(0))] # 0

\* the activations before the k-th that bind the same variable
EarlierActs(k) == {m \in 1..(k - 1) : acts[m].var = acts[k].var}

AtStmt(t) ==
  status = "run" /\ thr[t].st = "run" /\ thr[t].par /\ Pos(thr[t]) = "stmt"

\* ... an assignment to a progress counter
AtCounterUpdate(t) ==
  /\ AtStmt(t)
  /\ CurStmt(thr[t]).k = "assign" /\ CurStmt(thr[t]).var \in Counters

\* ... the call of a nonterminal inside a tile
AtCellWork(t) ==
  /\ AtStmt(t)
  /\ CurStmt(thr[t]).k = "call" /\ IsNtCallName(CurStmt(thr[t]).name)

\* C22: in the tiled schedule with checkpoint support a worker executes the
\* nonterminal calls of a tile while it holds the mutex in shared mode, and
\* executes every assignment to outer_loop_1_idx, outer_loop_2_idx and
\* inner_loop_2_idx while it holds the mutex in exclusive mode
LockModes ==
  ast.checkpoint =>
    \A t \in Threads :
      /\ AtCellWork(t) => mutex.shared[t] > 0
      /\ AtCounterUpdate(t) => mutex.excl = t

\* a worker is about to advance a counter inside the ordered block while it
\* and another worker hold the mutex in shared mode
SharedCommitWitness ==
  \E t \in Threads, u \in Threads :
    /\ t # u /\ AtCounterUpdate(t) /\ mutex.excl = 0
    /\ mutex.shared[t] > 0 /\ mutex.shared[u] > 0

\* the tile size and max_tiles_n of the build
TileSize == IF build.tile > 0 THEN build.tile ELSE DefaultTileSize
MaxTilesN == (N \div TileSize) * TileSize

\* the tiles (z, y) of phase B and the cells of a tile
TilesB ==
  {q \in (1..N) \X (1..N) :
     /\ q[1] % TileSize = 0 /\ q[2] % TileSize = 0
     /\ q[1] <= q[2] /\ q[2] < MaxTilesN}
TileCells(q) ==
  {<< q[2] - q[1] + a, q[2] + b >> :
     a \in 0..(TileSize - 1), b \in 0..(TileSize - 1)}

\* the tiles that come before tile (z, y) in the order of the schedule
TilesBefore(z, y) ==
  {q \in TilesB : q[1] < z \/ (q[1] = z /\ q[2] < y)}

\* the checkpoint thread can take the mutex exclusively and read the
\* counters
SnapshotPossible ==
  status = "run" /\ ast.checkpoint /\ build.openmp /\ mutex = FreeMutex

\* C23 (second part): the pair (outer_loop_2_idx, inner_loop_2_idx) a
\* snapshot can read designates a tile all of whose predecessors in
\* schedule order are complete
SnapshotDesignatesFrontier ==
  SnapshotPossible =>
    \A q \in TilesBefore(glob[VARNAME_OuterLoop2], glob[VARNAME_InnerLoop2]) :
      TileCells(q) \subseteq Filled

\* C23: every write to outer_loop_1_idx, outer_loop_2_idx and
\* inner_loop_2_idx in the parallel phases is made by a worker that holds
\* the mutex (so that the checkpoint thread, which holds it exclusively
\* while it reads, sees no update under way), and the pair
\* (outer_loop_2_idx, inner_loop_2_idx) a snapshot reads designates a tile
\* whose predecessors in schedule order are all complete
NoTornSnapshot ==
  /\ ast.checkpoint =>
       \A t \in Threads :
         AtCounterUpdate(t) => (mutex.shared[t] > 0 \/ mutex.excl = t)
  /\ SnapshotDesignatesFrontier

\* a worker is about to reset inner_loop_2_idx after the y loop of a round
\* while nobody holds the mutex
UnlockedResetWitness ==
  \E t \in Threads :
    /\ AtCounterUpdate(t) /\ mutex = FreeMutex
    /\ CurStmt(thr[t]).var = VARNAME_InnerLoop2
    /\ build.nthreads > 1

\* thread t of the team is inside a block that assigns progress counters,
\* and the counters that block assigns
CommitVarsOf(body) ==
  {body[i].var : i \in {j \in 1..Len(body) :
                          body[j].k = "assign" /\ body[j].var \in Counters}}
InCommit(t) ==
  /\ AtStmt(t) /\ thr[t].iter # 0
  /\ TopF(thr[t]).kind \in {"ordered", "seq"}
  /\ CommitVarsOf(TopF(thr[t]).body) # {}

\* the commit of iteration d of the current work-shared loop has assigned
\* all the counters in vs
Committed(d, vs) ==
  \A v \in vs : \E k \in 1..Len(ws.commits) :
    ws.commits[k].iter = d /\ ws.commits[k].var = v

\* the cells of the tile thread t is in: a triangle on the diagonal in
\* phase A, a square in phase B
OwnTile(t) ==
  LET loc == thr[t].loc
  IN IF "y" \in DOMAIN loc THEN TileCells(<< loc["z"], loc["y"] >>)
     ELSE {c \in Triangle(N) :
             loc["z"] <= c[1] /\ c[2] <= loc["z"] + TileSize - 1}

\* C24: with checkpoint support the counter updates of the tiles of one
\* work-shared loop are executed one at a time and in iteration order: a
\* worker is inside its commit block only when no other worker is inside
\* one, all tiles of earlier iterations of the loop have committed and the
\* cells of its own tile are evaluated, in every interleaving of the team
OrderedCommit ==
  /\ \A t \in Threads :
       InCommit(t) =>
         /\ \A u \in Threads \ {t} : ~InCommit(u)
         /\ \A d \in 1..(thr[t].iter - 1) :
              Committed(d, CommitVarsOf(TopF(thr[t]).body))
         /\ OwnTile(t) \subseteq Filled
  /\ \A k \in 1..Len(ws.commits), m \in 1..Len(ws.commits) :
       k < m => ws.commits[k].iter <= ws.commits[m].iter

\* a worker commits its tile while another worker, which holds the shared
\* lock too, evaluates the cells of a later tile of the same loop
OverlapWitness ==
  \E t \in Threads, u \in Threads :
    /\ InCommit(t) /\ thr[t].iter >= 2
    /\ AtCellWork(u) /\ thr[u].iter > thr[t].iter
    /\ mutex.shared[t] > 0 /\ mutex.shared[u] > 0

\* the worker t waits at its ordered block for the iterations before
WaitsOrdered(t) ==
  /\ Runnable(Cur, t) /\ AtStmt(t)
  /\ TopF(thr[t]).body[TopF(thr[t]).pc].k = "block"
  /\ thr[t].prag = "ordered" /\ ws.ordNext # thr[t].iter

\* the worker t waits in lock_shared
WaitsShared(t) ==
  /\ Runnable(Cur, t) /\ AtStmt(t)
  /\ TopF(thr[t]).body[TopF(thr[t]).pc].k = "call"
  /\ TopF(thr[t]).body[TopF(thr[t]).pc].name = "lock_shared"
  /\ Blocked(Cur, t)

\* nobody can take a step that brings the parallel region forward: every
\* worker inside it waits, and the checkpoint thread waits for the mutex
RegionStuck ==
  /\ status = "run"
  /\ \E t \in Team : thr[t].par /\ Runnable(Cur, t)
  /\ \A t \in Team : thr[t].par /\ Runnable(Cur, t) => Blocked(Cur, t)
  /\ mutex.excl # Checkpointer
  /\ mutex.pend => \E t \in Threads : mutex.shared[t] > 0

\* C25: with the checkpoint thread taking the mutex exclusively and a
\* mutex that prefers writers, the parallel region never gets stuck: in no
\* reachable state a worker that holds the shared lock waits at the ordered
\* block for an earlier iteration whose worker waits in lock_shared behind
\* the pending exclusive request
NoLockOrderDeadlock ==
  /\ ~RegionStuck
  /\ ~\E t, u \in Team :
        /\ t # u /\ mutex.pend
        /\ mutex.shared[t] > 0 /\ WaitsOrdered(t)
        /\ thr[u].iter = ws.ordNext /\ WaitsShared(u)

\* the checkpoint thread holds the mutex while the workers of the team
\* are inside the region, one of them waiting in lock_shared
CheckpointerHoldsWitness ==
  /\ mutex.excl = Checkpointer
  /\ \E t \in Team : thr[t].par /\ thr[t].iter # 0 /\ WaitsShared(t)

\* the workers of the team are inside the work-shared y loop of phase B
InYLoop ==
  /\ status = "run" /\ ws.id # 0
  /\ \E t \in Team : thr[t].par /\ thr[t].wsn = ws.id /\ "y" \in DOMAIN thr[t].loc

\* C26: all workers that enter the work-shared y loop of one z-round of
\* the checkpointed phase B compute the same start value
ConsistentYStart ==
  (ast.checkpoint /\ InYLoop) => Cardinality(ws.starts) <= 1

\* two workers have entered the y loop of a resumed run, the second after
\* the first has incremented inner_loop_2_idx_loaded in the loop body
SecondEntryWitness ==
  /\ ast.checkpoint /\ InYLoop /\ restarts > 0
  /\ Cardinality({t \in Team : thr[t].par /\ thr[t].wsn = ws.id}) >= 2
  /\ glob[LoadedName(VARNAME_InnerLoop2)] > 0
  /\ \E a \in 1..Len(acts) : acts[a].var = "y" /\ acts[a].restored

\* the number of tiles of phase A committed so far in the running loop
CommittedA ==
  Cardinality({k \in 1..Len(ws.commits) : ws.commits[k].var = VARNAME_OuterLoop1})

\* C27: in a checkpointed run, after the ordered commit of the k-th tile of
\* phase A (k >= 1) outer_loop_1_idx is the offset of the next tile,
\* outer_loop_1_idx_start + k * tile_size
PhaseACounter ==
  (status = "run" /\ ast.checkpoint /\ CommittedA >= 1) =>
     glob[VARNAME_OuterLoop1] =
       glob[StartName(VARNAME_OuterLoop1)] + CommittedA * TileSize

\* the second tile of phase A has been committed
SecondCommitWitness ==
  status = "run" /\ ast.checkpoint /\ CommittedA >= 2

\* C28: with loaded flags of a bounded width, post-incremented in every
\* activation of a loop over their variable, a flag never evaluates to 0
\* after its first read: no activation after the first one selects the
\* stored value of the variable instead of the natural start
FlagNeverZeroAgain ==
  \A k \in 1..Len(acts) :
    (acts[k].flips /\ EarlierActs(k) # {}) => ~acts[k].restored

\* a loop has been activated as often as the int of the build has values
WrappedFlagWitness ==
  /\ "intmax" \in DOMAIN build
  /\ \E k \in 1..Len(acts) :
       acts[k].flips /\ Cardinality(EarlierActs(k)) >= 2 * build.intmax + 1

\* C29: with checkpoint support every worker's lock_shared and
\* unlock_shared alternate strictly (it never locks while it holds the
\* shared lock and never unlocks while it does not), and nobody holds the
\* mutex when cyk() has returned
BalancedLocking ==
  ast.checkpoint =>
    /\ \A t \in Threads : mutex.shared[t] \in {0, 1}
    /\ status = "done" => mutex = FreeMutex

\* cyk() has returned after tiles of phase A and phase B and call groups of
\* the serial closure, each run under the shared lock
LockedRunDoneWitness ==
  /\ ast.checkpoint /\ status = "done" /\ build.nthreads > 1
  /\ CellsBy({PhaseA}) # {} /\ CellsBy({PhaseB}) # {}
  /\ CellsBy(SerialClosure) # {}
  /\ mutex = FreeMutex

\* the pairs (row, column) the outside nest has visited
NestPairs == {log[k].idx : k \in NestVisits}

\* C30: the outside traversal of one track visits every pair (i, j) with
\* 0 <= i <= j <= n exactly once and never a pair with i > j
OutsideCoverage ==
  ast.outside_generation =>
    /\ NestPairs \subseteq Triangle(N)
    /\ \A k \in NestVisits, m \in NestVisits :
         log[k].idx = log[m].idx => k = m
    /\ status = "done" => Triangle(N) \subseteq NestPairs

\* the outside nest has run through all its rows on a non-empty input and
\* has visited a pair of every row
OutsideNestWitness ==
  /\ ast.outside_generation /\ status = "done" /\ N >= 1
  /\ \A i \in 0..N : \E c \in NestPairs : c[1] = i

====
